---- MODULE Spec2Model ----
(***************************************************************************)
(* The text compressor of lib/compression-utils.ts: compressText and its   *)
(* four stages, and the metrics calculateCompressionRatio and              *)
(* estimateTokenReduction.  A text is a sequence of characters, a          *)
(* character a string of length one.  Array.prototype.split/filter/map/    *)
(* join, String.replace, String.slice and the regular expressions are      *)
(* written out as operators on sequences.                                  *)
(***************************************************************************)
EXTENDS Integers, Sequences, FiniteSets, TLC

VARIABLES
  text,          \* the argument `text` of compressText
  options,       \* the argument `options` of compressText (absent field = undefined)
  pc,            \* the statement compressText is about to execute
  compressed,    \* the local `compressed` of compressText
  original,      \* the argument `original` of the two metrics
  compressedArg, \* the argument `compressed` of the two metrics
  ratio,         \* what calculateCompressionRatio returned
  reduction,     \* what estimateTokenReduction returned
  calls,         \* concurrent calls of compressText: arguments, position, local
  stopwordSet,   \* the module-level Set commonStopwords the calls share
  selection,     \* the tech stack selection the caller of autoCorrectSelections holds
  lastCall,      \* the last call of autoCorrectSelections: arguments and outcome
  filesParam,    \* GET /api/rules: the query parameter `files`, or its absence
  fileNames,     \* the file names the loop of GET has still to handle
  contents,      \* the local `contents` of GET
  reads,         \* the calls of fs.readFile GET has made: path, key, success
  response,      \* the response of GET
  routePc,       \* the statement GET is about to execute
  selectedTool,  \* useRulesGenerator: the state selectedTool
  techStack,     \* useRulesGenerator: the state techStack
  bestPractices, \* useRulesGenerator: the state bestPractices
  isGenerating,  \* useRulesGenerator: the state isGenerating
  generateCalls, \* the calls of generateRules: position and captured tool
  downloads,     \* the downloads triggered so far
  config,           \* generateRulesContent: the argument `config`
  markdownContents, \* what loadMarkdownRules returned
  files,            \* the local `files` of generateToolSpecificFiles
  generatorPc       \* the statement the generator is about to execute

compressVars == <<text, options, pc, compressed>>

metricVars == <<original, compressedArg, ratio, reduction>>

concurrentVars == <<calls, stopwordSet>>

selectionVars == <<selection, lastCall>>

routeVars == <<filesParam, fileNames, contents, reads, response, routePc>>

hookVars == <<selectedTool, techStack, bestPractices, isGenerating, generateCalls, downloads>>

generatorVars == <<config, markdownContents, files, generatorPc>>

vars == <<compressVars, metricVars, concurrentVars, selectionVars, routeVars, hookVars, generatorVars>>

\* What a step of compressText, a metric, a step of a concurrent call,
\* autoCorrectSelections, a step of GET /api/rules, a step of
\* useRulesGenerator and a step of the cursor generator do not touch
outsideCompress == <<metricVars, concurrentVars, selectionVars, routeVars, hookVars, generatorVars>>

outsideMetrics == <<compressVars, concurrentVars, selectionVars, routeVars, hookVars, generatorVars>>

outsideCalls == <<compressVars, metricVars, selectionVars, routeVars, hookVars, generatorVars>>

outsideSelection == <<compressVars, metricVars, concurrentVars, routeVars, hookVars, generatorVars>>

outsideRoute == <<compressVars, metricVars, concurrentVars, selectionVars, hookVars, generatorVars>>

outsideHook == <<compressVars, metricVars, concurrentVars, selectionVars, routeVars, generatorVars>>

outsideGenerator == <<compressVars, metricVars, concurrentVars, selectionVars, routeVars, hookVars>>

(***************************************************************************)
(* Characters                                                              *)
(***************************************************************************)
LowerSeq ==
  <<"a", "b", "c", "d", "e", "f", "g", "h", "i", "j", "k", "l", "m",
    "n", "o", "p", "q", "r", "s", "t", "u", "v", "w", "x", "y", "z">>

UpperSeq ==
  <<"A", "B", "C", "D", "E", "F", "G", "H", "I", "J", "K", "L", "M",
    "N", "O", "P", "Q", "R", "S", "T", "U", "V", "W", "X", "Y", "Z">>

Range(s) == {s[i] : i \in DOMAIN s}

\* [a-z]
Lower == Range(LowerSeq)

\* [A-Z]
Upper == Range(UpperSeq)

\* U+212A KELVIN SIGN: not matched by [a-zA-Z], lower-cased to "k" by
\* String.prototype.toLowerCase.
Kelvin == "U+212A"

\* \s of the regular expressions and of trim()
Whitespace == {" ", "\n", "\t"}

\* Faulty variant: the full stop is removed as well.
RemovedPunctuationAndStop == {",", ";", ":", "'", "\"", "!", "?", "."}

\* The character class [,;:'"!?] of removePunctuation
RemovedPunctuation == {",", ";", ":", "'", "\"", "!", "?"}

\* toLowerCase on one character
LowerOf(c) ==
  IF c \in Upper THEN LowerSeq[CHOOSE i \in DOMAIN UpperSeq : UpperSeq[i] = c]
  ELSE IF c = Kelvin THEN "k"
  ELSE c

(***************************************************************************)
(* String and array primitives                                             *)
(***************************************************************************)
\* String.prototype.toLowerCase
toLowerCase(s) == [i \in DOMAIN s |-> LowerOf(s[i])]

IsWs(c) == c \in Whitespace

\* s.split(/\s+/): the pieces between the maximal runs of whitespace; a text
\* that starts (ends) with whitespace has an empty first (last) piece.
RECURSIVE SplitFrom(_, _, _, _)
SplitFrom(s, i, cur, acc) ==
  IF i > Len(s) THEN Append(acc, cur)
  ELSE IF IsWs(s[i])
       THEN IF i > 1 /\ IsWs(s[i - 1])
            THEN SplitFrom(s, i + 1, cur, acc)
            ELSE SplitFrom(s, i + 1, <<>>, Append(acc, cur))
       ELSE SplitFrom(s, i + 1, Append(cur, s[i]), acc)

split(s) == SplitFrom(s, 1, <<>>, <<>>)

\* words.join('')
RECURSIVE join(_)
join(ws) == IF ws = <<>> THEN <<>> ELSE Head(ws) \o join(Tail(ws))

\* s.endsWith(suffix)
endsWith(s, suffix) ==
  /\ Len(suffix) <= Len(s)
  /\ SubSeq(s, Len(s) - Len(suffix) + 1, Len(s)) = suffix

\* s.slice(0, -n), n > 0
sliceEnd(s, n) == SubSeq(s, 1, Len(s) - n)

\* s.indexOf(sub) + 1 for a non-empty sub; 0 when sub does not occur in s
indexOf(s, sub) ==
  LET hits == {i \in 1..(Len(s) - Len(sub) + 1) : SubSeq(s, i, i + Len(sub) - 1) = sub}
  IN  IF hits = {} THEN 0 ELSE CHOOSE i \in hits : \A j \in hits : i <= j

\* s.replace(pattern, replacement) with a string pattern: the first occurrence
\* is replaced, a string without the pattern is returned as it is.
replace(s, pattern, replacement) ==
  LET i == indexOf(s, pattern)
  IN  IF i = 0 THEN s
      ELSE SubSeq(s, 1, i - 1) \o replacement \o SubSeq(s, i + Len(pattern), Len(s))

(***************************************************************************)
(* The stopword set                                                        *)
(***************************************************************************)
commonStopwords ==
  {
    <<"a">>, <<"a", "n">>, <<"a", "n", "d">>, <<"a", "r", "e">>, <<"a", "s">>, <<"a", "t">>,
    <<"b", "e">>, <<"b", "e", "e", "n">>, <<"b", "e", "i", "n", "g">>, <<"b", "y">>,
    <<"f", "o", "r">>, <<"f", "r", "o", "m">>, <<"h", "a", "s">>, <<"h", "a", "v", "e">>,
    <<"h", "e">>, <<"h", "e", "r">>, <<"h", "i", "m">>, <<"h", "i", "s">>, <<"h", "o", "w">>,
    <<"i">>, <<"i", "n">>, <<"i", "n", "t", "o">>, <<"i", "s">>, <<"i", "t">>,
    <<"i", "t", "s">>, <<"m", "e">>, <<"m", "y">>, <<"o", "f">>, <<"o", "n">>, <<"o", "r">>,
    <<"o", "u", "r">>, <<"s", "h", "e">>, <<"s", "o">>, <<"t", "h", "a", "n">>,
    <<"t", "h", "a", "t">>, <<"t", "h", "e">>, <<"t", "h", "e", "i", "r">>,
    <<"t", "h", "e", "m">>, <<"t", "h", "e", "n">>, <<"t", "h", "e", "r", "e">>,
    <<"t", "h", "e", "s", "e">>, <<"t", "h", "e", "y">>, <<"t", "h", "i", "s">>,
    <<"t", "h", "o", "s", "e">>, <<"t", "o">>, <<"t", "o", "o">>, <<"u", "s">>,
    <<"w", "a", "s">>, <<"w", "e">>, <<"w", "e", "r", "e">>, <<"w", "h", "a", "t">>,
    <<"w", "h", "e", "n">>, <<"w", "h", "e", "r", "e">>, <<"w", "h", "i", "c", "h">>,
    <<"w", "h", "o">>, <<"w", "h", "y">>, <<"w", "i", "l", "l">>, <<"w", "i", "t", "h">>,
    <<"w", "o", "u", "l", "d">>, <<"y", "o", "u">>, <<"y", "o", "u", "r">>,
    <<"a", "b", "o", "u", "t">>, <<"a", "f", "t", "e", "r">>, <<"a", "l", "l">>,
    <<"a", "l", "s", "o">>, <<"a", "m">>, <<"a", "n", "o", "t", "h", "e", "r">>,
    <<"a", "n", "y">>, <<"b", "e", "c", "a", "u", "s", "e">>, <<"b", "e", "f", "o", "r", "e">>,
    <<"b", "e", "t", "w", "e", "e", "n">>, <<"b", "o", "t", "h">>, <<"b", "u", "t">>,
    <<"c", "a", "n">>, <<"c", "o", "u", "l", "d">>, <<"d", "i", "d">>, <<"d", "o">>,
    <<"d", "o", "e", "s">>, <<"e", "a", "c", "h">>, <<"f", "e", "w">>, <<"h", "a", "d">>,
    <<"h", "e", "r", "e">>, <<"i", "f">>, <<"j", "u", "s", "t">>, <<"l", "i", "k", "e">>,
    <<"m", "a", "k", "e">>, <<"m", "a", "n", "y">>, <<"m", "a", "y">>, <<"m", "o", "r", "e">>,
    <<"m", "o", "s", "t">>, <<"m", "u", "c", "h">>, <<"m", "u", "s", "t">>, <<"n", "o", "w">>,
    <<"o", "n", "l", "y">>, <<"o", "t", "h", "e", "r">>, <<"o", "u", "t">>,
    <<"o", "v", "e", "r">>, <<"s", "a", "i", "d">>, <<"s", "a", "m", "e">>, <<"s", "e", "e">>,
    <<"s", "h", "o", "u", "l", "d">>, <<"s", "i", "n", "c", "e">>, <<"s", "o", "m", "e">>,
    <<"s", "t", "i", "l", "l">>, <<"s", "u", "c", "h">>, <<"t", "a", "k", "e">>,
    <<"t", "h", "r", "o", "u", "g", "h">>, <<"u", "n", "d", "e", "r">>, <<"u", "p">>,
    <<"v", "e", "r", "y">>, <<"w", "a", "y">>, <<"w", "e", "l", "l">>,
    <<"w", "h", "i", "l", "e">>
  }

(***************************************************************************)
(* porterStemmer                                                           *)
(***************************************************************************)
\* Faulty variant: the suffix s is tried before ss.
suffixesPluralFirst ==
  << <<"s", "s", "e", "s">>, <<"i", "e", "s">>, <<"s">>, <<"s", "s">>,
     <<"e", "e", "d">>, <<"e", "d">>, <<"i", "n", "g">> >>

\* const suffixes = ['sses', 'ies', 'ss', 's', 'eed', 'ed', 'ing']
suffixes ==
  << <<"s", "s", "e", "s">>, <<"i", "e", "s">>, <<"s", "s">>, <<"s">>,
     <<"e", "e", "d">>, <<"e", "d">>, <<"i", "n", "g">> >>

\* The switch of porterStemmer for the suffix the loop stopped at.
stemBySuffix(word, suffix) ==
  CASE suffix = <<"s", "s", "e", "s">> -> sliceEnd(word, 2)
    [] suffix = <<"i", "e", "s">> -> sliceEnd(word, 2)
    [] suffix = <<"s", "s">> -> word
    [] suffix = <<"s">> -> sliceEnd(word, 1)
    [] suffix = <<"e", "e", "d">> -> IF Len(word) > 4 THEN sliceEnd(word, 1) ELSE word
    [] OTHER -> IF Len(word) > 4 THEN sliceEnd(word, Len(suffix)) ELSE word

\* Every case of the switch returns, so the first suffix of the list the
\* lower-cased word ends with decides the result.
porterStemmer(word) ==
  LET lowered == toLowerCase(word)
      matching == {i \in DOMAIN suffixes : endsWith(lowered, suffixes[i])}
  IN  IF matching = {} THEN lowered
      ELSE stemBySuffix(lowered,
                        suffixes[CHOOSE i \in matching : \A j \in matching : i <= j])

(***************************************************************************)
(* The four stages                                                         *)
(***************************************************************************)
\* word.toLowerCase().replace(/[^a-z]/g, '')
lowerWord(word) == SelectSeq(toLowerCase(word), LAMBDA c : c \in Lower)

\* Faulty variant: the filter keeps the stopwords instead of the other words.
keepsWordInverted(word) == lowerWord(word) # <<>> /\ lowerWord(word) \in commonStopwords

\* Faulty variant: the word is stripped of all but a-z before it is lower-cased.
keepsWordStripFirst(word) ==
  LET stripped == toLowerCase(SelectSeq(word, LAMBDA c : c \in Lower))
  IN  stripped # <<>> /\ stripped \notin commonStopwords

\* Faulty variant: the filter does not test the cleaned word for emptiness.
keepsWordNoEmptyTest(word) == lowerWord(word) \notin commonStopwords

\* The filter callback of removeStopwords: the empty string is falsy.
keepsWord(word) == lowerWord(word) # <<>> /\ lowerWord(word) \notin commonStopwords

\* Faulty variant: the kept words are joined with a space.
removeStopwordsSpaced(t) ==
  LET kept == SelectSeq(split(t), keepsWord)
  IN  IF kept = <<>> THEN <<>>
      ELSE Head(kept) \o join([i \in 1..(Len(kept) - 1) |-> <<" ">> \o kept[i + 1]])

removeStopwords(t) == join(SelectSeq(split(t), keepsWord))

\* Faulty variant: the pattern lacks the g flag, only the first match is removed.
removePunctuationFirstOnly(t) ==
  IF \E i \in DOMAIN t : t[i] \in RemovedPunctuation
  THEN LET first == CHOOSE i \in DOMAIN t :
                      /\ t[i] \in RemovedPunctuation
                      /\ \A k \in 1..(i - 1) : t[k] \notin RemovedPunctuation
       IN  SubSeq(t, 1, first - 1) \o SubSeq(t, first + 1, Len(t))
  ELSE t

removePunctuation(t) == SelectSeq(t, LAMBDA c : c \notin RemovedPunctuation)

\* Faulty variant: only blanks are removed, tabs and newlines stay.
removeBlankRuns(t) == SelectSeq(t, LAMBDA c : c # " ")

\* t.replace(/\s+/g, '')
removeWhitespaceRuns(t) == SelectSeq(t, LAMBDA c : ~IsWs(c))

\* t.replace(/\n+/g, '\n')
RECURSIVE collapseNewlines(_)
collapseNewlines(t) ==
  IF t = <<>> THEN <<>>
  ELSE IF Len(t) >= 2 /\ t[1] = "\n" /\ t[2] = "\n" THEN collapseNewlines(Tail(t))
  ELSE <<Head(t)>> \o collapseNewlines(Tail(t))

\* t.trim()
RECURSIVE trim(_)
trim(t) ==
  IF t = <<>> THEN <<>>
  ELSE IF IsWs(t[1]) THEN trim(Tail(t))
  ELSE IF IsWs(t[Len(t)]) THEN trim(SubSeq(t, 1, Len(t) - 1))
  ELSE t

removeExtraSpaces(t) == trim(collapseNewlines(removeWhitespaceRuns(t)))

\* /^[A-Z_]+$/.test(word)
isUpperSnake(word) ==
  word # <<>> /\ \A i \in DOMAIN word : word[i] \in Upper \cup {"_"}

\* Faulty variant: /[A-Z][a-z]*[A-Z]/, two capitals with any number of lowercase
\* letters between them.
hasInnerCapitalsStar(word) ==
  \E i, j \in DOMAIN word :
    /\ i < j
    /\ word[i] \in Upper
    /\ word[j] \in Upper
    /\ \A k \in (i + 1)..(j - 1) : word[k] \in Lower

\* /[A-Z][a-z]+[A-Z]/.test(word)
hasInnerCapitals(word) ==
  \E i, j \in DOMAIN word :
    /\ i + 1 < j
    /\ word[i] \in Upper
    /\ word[j] \in Upper
    /\ \A k \in (i + 1)..(j - 1) : word[k] \in Lower

\* Faulty variant: only the first run of letters is taken.
cleanWordFirstRun(word) ==
  IF \E i \in DOMAIN word : word[i] \in Lower \cup Upper
  THEN LET first == CHOOSE i \in DOMAIN word :
                      /\ word[i] \in Lower \cup Upper
                      /\ \A k \in 1..(i - 1) : word[k] \notin Lower \cup Upper
           last == CHOOSE i \in first..Len(word) :
                     /\ \A k \in first..i : word[k] \in Lower \cup Upper
                     /\ i = Len(word) \/ word[i + 1] \notin Lower \cup Upper
       IN  SubSeq(word, first, last)
  ELSE <<>>

\* word.replace(/[^a-zA-Z]/g, '')
cleanWord(word) == SelectSeq(word, LAMBDA c : c \in Lower \cup Upper)

\* A const declaration: the value is computed once and then named.
Let(value, Body(_)) == CHOOSE result \in {Body(v) : v \in {value}} : TRUE

\* Faulty variant: the arguments of replace are swapped, the stem is replaced by the word.
stemWordSwapped(word, stemmerType) ==
  IF isUpperSnake(word) \/ hasInnerCapitals(word) THEN word
  ELSE Let(cleanWord(word), LAMBDA clean :
         IF clean # <<>> /\ porterStemmer(clean) # <<>>
         THEN replace(word, porterStemmer(clean), clean)
         ELSE word)

\* Faulty variant: snowball has a rule of its own, it only lower-cases the word.
stemWordSnowballOwn(word, stemmerType) ==
  IF isUpperSnake(word) \/ hasInnerCapitals(word) THEN word
  ELSE Let(cleanWord(word), LAMBDA clean :
         IF clean # <<>>
         THEN CASE stemmerType = "porter" -> replace(word, clean, porterStemmer(clean))
                [] stemmerType = "snowball" -> replace(word, clean, toLowerCase(clean))
                [] stemmerType = "lancaster" ->
                     replace(word, clean, sliceEnd(porterStemmer(clean), 1))
                [] OTHER -> word
         ELSE word)

\* The map callback of applyStemming.
stemWord(word, stemmerType) ==
  IF isUpperSnake(word) \/ hasInnerCapitals(word) THEN word
  ELSE Let(cleanWord(word), LAMBDA clean :
         IF clean # <<>>
         THEN CASE stemmerType = "porter" -> replace(word, clean, porterStemmer(clean))
                [] stemmerType = "snowball" -> replace(word, clean, porterStemmer(clean))
                [] stemmerType = "lancaster" ->
                     replace(word, clean, sliceEnd(porterStemmer(clean), 1))
                [] OTHER -> word
         ELSE word)

applyStemming(t, stemmerType) ==
  Let(split(t), LAMBDA words :
    join([i \in DOMAIN words |-> Let(words[i], LAMBDA word : stemWord(word, stemmerType))]))

(***************************************************************************)
(* compressText                                                            *)
(***************************************************************************)
StemmerTypes == {"porter", "snowball", "lancaster"}

\* A destructured field of `options`, with its default for an absent field.
optionOr(field, default) ==
  IF field \in DOMAIN options THEN options[field] ELSE default

doRemoveStopwords == optionOr("removeStopwords", TRUE)
\* Faulty variant: punctuation removal is on when the field is absent.
doRemovePunctuationDefaultOn == optionOr("removePunctuation", TRUE)

doRemovePunctuation == optionOr("removePunctuation", FALSE)
doRemoveSpaces == optionOr("removeSpaces", TRUE)
useStemming == optionOr("useStemming", TRUE)
stemmerType == optionOr("stemmerType", "porter")

\* if (doRemoveStopwords) compressed = removeStopwords(compressed)
StopwordsStep ==
  /\ pc = "stopwords"
  /\ compressed' = IF doRemoveStopwords THEN removeStopwords(compressed) ELSE compressed
  /\ pc' = "punctuation"
  /\ UNCHANGED <<text, options, outsideCompress>>

\* Faulty variant: the punctuation stage runs whatever its flag says.
PunctuationStepUngated ==
  /\ pc = "punctuation"
  /\ compressed' = removePunctuation(compressed)
  /\ pc' = "stemming"
  /\ UNCHANGED <<text, options, outsideCompress>>

\* if (doRemovePunctuation) compressed = removePunctuation(compressed)
PunctuationStep ==
  /\ pc = "punctuation"
  /\ compressed' = IF doRemovePunctuation THEN removePunctuation(compressed) ELSE compressed
  /\ pc' = "stemming"
  /\ UNCHANGED <<text, options, outsideCompress>>

\* Faulty variant: the stemming stage reads the first character of its input, which
\* fails on the empty text.
StemmingStepFirstChar ==
  /\ pc = "stemming"
  /\ compressed # <<>>
  /\ compressed' = IF useStemming THEN applyStemming(compressed, stemmerType) ELSE compressed
  /\ pc' = "spaces"
  /\ UNCHANGED <<text, options, outsideCompress>>

\* if (useStemming) compressed = applyStemming(compressed, stemmerType)
StemmingStep ==
  /\ pc = "stemming"
  /\ compressed' = IF useStemming THEN applyStemming(compressed, stemmerType) ELSE compressed
  /\ pc' = "spaces"
  /\ UNCHANGED <<text, options, outsideCompress>>

\* if (doRemoveSpaces) compressed = removeExtraSpaces(compressed); return compressed
SpacesStep ==
  /\ pc = "spaces"
  /\ compressed' = IF doRemoveSpaces THEN removeExtraSpaces(compressed) ELSE compressed
  /\ pc' = "done"
  /\ UNCHANGED <<text, options, outsideCompress>>

(***************************************************************************)
(* calculateCompressionRatio and estimateTokenReduction                     *)
(*                                                                         *)
(* Both return Math.round(x * 10) / 10: a number of tenths.  A returned     *)
(* number is written as its count of tenths (50.0 is Number(500)), and the  *)
(* quotients are kept exact as numerator and denominator; for lengths below *)
(* 80 the double arithmetic of the code gives the same tenths.              *)
(***************************************************************************)
Number(tenths) == [kind |-> "number", tenths |-> tenths]

NaN == [kind |-> "NaN"]

NegativeInfinity == [kind |-> "-Infinity"]

\* The metric has not been called.
NotCalled == [kind |-> "none"]

\* Math.ceil(num / den), den > 0
MathCeil(num, den) == -((-num) \div den)

\* Faulty variant: Math.floor in the place of Math.round.
MathFloor(num, den) == num \div den

\* Math.round(num / den), den > 0: the nearest integer, a half goes up
MathRound(num, den) == (2 * num + den) \div (2 * den)

calculateCompressionRatio(originalText, compressedText) ==
  LET originalLength == Len(originalText)
      compressedLength == Len(compressedText)
  IN  IF originalLength = 0 THEN Number(0)
      ELSE Number(MathRound((originalLength - compressedLength) * 100 * 10, originalLength))

\* Faulty variant: one token for each character.
estimateTokenReductionByCharacter(originalText, compressedText) ==
  LET originalTokens == Len(originalText)
      compressedTokens == Len(compressedText)
  IN  IF originalTokens = 0
      THEN (IF compressedTokens = 0 THEN NaN ELSE NegativeInfinity)
      ELSE Number(MathRound((originalTokens - compressedTokens) * 100 * 10, originalTokens))

\* Without tokens in the original the quotient is 0 / 0 or a negative number / 0.
estimateTokenReduction(originalText, compressedText) ==
  LET originalTokens == MathCeil(Len(originalText), 4)
      compressedTokens == MathCeil(Len(compressedText), 4)
  IN  IF originalTokens = 0
      THEN (IF compressedTokens = 0 THEN NaN ELSE NegativeInfinity)
      ELSE Number(MathRound((originalTokens - compressedTokens) * 100 * 10, originalTokens))

CalculateCompressionRatio ==
  /\ ratio = NotCalled
  /\ ratio' = calculateCompressionRatio(original, compressedArg)
  /\ UNCHANGED <<original, compressedArg, reduction, outsideMetrics>>

EstimateTokenReduction ==
  /\ reduction = NotCalled
  /\ reduction' = estimateTokenReduction(original, compressedArg)
  /\ UNCHANGED <<original, compressedArg, ratio, outsideMetrics>>

(***************************************************************************)
(* The calls checked                                                       *)
(***************************************************************************)
\* The longest exhaustively enumerated text
MaxLen == 3

\* The characters of the exhaustively enumerated texts: two letters, a capital,
\* two kinds of whitespace, a kept and a removed punctuation mark, the Kelvin sign.
Alphabet == {"s", "u", "U", " ", "\n", "_", ",", Kelvin}

BoundedTexts == UNION {[1..n -> Alphabet] : n \in 0..MaxLen}

\* compression-utils.test.ts: should remove stopwords
StopwordTestInput ==
  <<"T", "h", "i", "s", " ", "i", "s", " ", "a", " ", "t", "e", "s", "t", " ", "o", "f", " ",
     "t", "h", "e", " ", "c", "o", "m", "p", "r", "e", "s", "s", "i", "o", "n", " ", "s", "y",
     "s", "t", "e", "m">>

\* should apply stemming
StemmingTestInput ==
  <<"t", "e", "s", "t", "i", "n", "g", " ", "t", "e", "s", "t", "e", "d", " ", "t", "e", "s",
     "t", "s">>

\* should remove extra spaces
SpacesTestInput ==
  <<"t", "o", "o", " ", " ", " ", " ", "m", "a", "n", "y", " ", " ", " ", " ", " ", "s", "p",
     "a", "c", "e", "s", " ", " ", " ", "h", "e", "r", "e">>

\* should preserve code-like patterns
IdentifierTestInput ==
  <<"c", "o", "n", "s", "t", " ", "A", "P", "I", "_", "K", "E", "Y", " ", "=", " ", "p", "r",
     "o", "c", "e", "s", "s", ".", "e", "n", "v", ".", "A", "P", "I", "_", "K", "E", "Y">>

\* Identifiers and identifier-like words
CamelCaseWord == <<"C", "a", "m", "e", "l", "C", "a", "s", "e">>

MyApiKeyWord == <<"m", "y", "A", "P", "I", "K", "e", "y">>

UseApiText == <<"u", "s", "e", " ", "A", "P", "I">>

\* Tokens without a letter of a-z or A-Z
AssignText == <<"x", " ", "=", " ", "4", "2">>

DashesText == <<"-", "-", " ", "o", "k">>

\* Words with punctuation attached to, or inside, their letters
TestsCommaText == <<"t", "e", "s", "t", "s", ",">>

ReTestedText == <<"r", "e", "-", "t", "e", "s", "t", "e", "d">>

DontText == <<"d", "o", "n", "'", "t">>

\* Words for each rule of porterStemmer
Word_Caresses == <<"c", "a", "r", "e", "s", "s", "e", "s">>

Word_Ponies == <<"p", "o", "n", "i", "e", "s">>

Word_Caress == <<"c", "a", "r", "e", "s", "s">>

Word_Cats == <<"c", "a", "t", "s">>

Word_Agreed == <<"a", "g", "r", "e", "e", "d">>

Word_Feed == <<"f", "e", "e", "d">>

Word_Tested == <<"t", "e", "s", "t", "e", "d">>

Word_Used == <<"u", "s", "e", "d">>

Word_Running == <<"R", "u", "n", "n", "i", "n", "g">>

Word_Sing == <<"s", "i", "n", "g">>

Word_Hello == <<"h", "e", "l", "l", "o">>

StemmerWords ==
  { Word_Caresses, Word_Ponies, Word_Caress, Word_Cats, Word_Agreed, Word_Feed,
    Word_Tested, Word_Used, Word_Running, Word_Sing, Word_Hello }

\* Two lines with an empty line between them
TwoLinesText == <<"a", "b", "\n", "\n", "c", " ", "d">>

\* The seven removed marks and some that are kept
PunctuatedText ==
  <<"a", ",", "b", ";", "c", ":", "d", "'", "e", "\"", "f", "!", "g", "?", "h", ".", "(", "_",
     ")", "-">>

ExampleTexts ==
  { StopwordTestInput, StemmingTestInput, SpacesTestInput, IdentifierTestInput,
    CamelCaseWord, MyApiKeyWord, UseApiText, AssignText, DashesText,
    TestsCommaText, ReTestedText, DontText, TwoLinesText,
    PunctuatedText } \cup StemmerWords

Texts == BoundedTexts \cup ExampleTexts

\* Every fully specified CompressionOptions
FullOptions ==
  [ removeStopwords : BOOLEAN, removePunctuation : BOOLEAN, removeSpaces : BOOLEAN,
    useStemming : BOOLEAN, stemmerType : StemmerTypes ]

\* compressText(input): the parameter default `options = {}`
NoOptions == [field \in {} |-> TRUE]

\* The partial options of the calls in compression-utils.test.ts
TestOptions ==
  { NoOptions,
    [removeStopwords |-> TRUE, useStemming |-> FALSE],
    [useStemming |-> TRUE, stemmerType |-> "porter"],
    [removeSpaces |-> TRUE] }

\* CompressionOptions with exactly one field left out, the stemmer given (when it is
\* not the field left out) being one that is not the default
OneFieldOmitted ==
  {[field \in DOMAIN full \ {omitted} |-> full[field]] :
     full \in {o \in FullOptions : o.stemmerType = "lancaster"},
     omitted \in {"removeStopwords", "removePunctuation", "removeSpaces", "useStemming",
                   "stemmerType"}}

Options == FullOptions \cup TestOptions \cup OneFieldOmitted

\* No call of compressText is under way.
NoCompressCall ==
  /\ text = <<>>
  /\ options = NoOptions
  /\ pc = "done"
  /\ compressed = <<>>

\* No metric is called.
NoMetricCall ==
  /\ original = <<>>
  /\ compressedArg = <<>>
  /\ ratio = NotCalled
  /\ reduction = NotCalled

\* No concurrent calls; the module has been loaded.
NoConcurrentCalls ==
  /\ calls = <<>>
  /\ stopwordSet = commonStopwords

\* autoCorrectSelections is not in use.
NoSelection ==
  /\ selection = <<>>
  /\ lastCall = <<>>

\* No request of /api/rules is under way.
NoRequest ==
  /\ filesParam = <<>>
  /\ fileNames = <<>>
  /\ contents = <<>>
  /\ reads = <<>>
  /\ response = <<>>
  /\ routePc = "done"

\* No component uses useRulesGenerator.
NoHook ==
  /\ selectedTool = <<>>
  /\ techStack = <<>>
  /\ bestPractices = <<>>
  /\ isGenerating = <<>>
  /\ generateCalls = <<>>
  /\ downloads = <<>>

\* No rules are being generated.
NoGeneration ==
  /\ config = <<>>
  /\ markdownContents = <<>>
  /\ files = <<>>
  /\ generatorPc = "done"

\* compressText is entered: let compressed = text
Init ==
  /\ text \in Texts
  /\ options \in Options
  /\ pc = "stopwords"
  /\ compressed = text
  /\ NoMetricCall
  /\ NoConcurrentCalls
  /\ NoSelection
  /\ NoRequest
  /\ NoHook
  /\ NoGeneration

Next == StopwordsStep \/ PunctuationStep \/ StemmingStep \/ SpacesStep

Spec == Init /\ [][Next]_vars

(***************************************************************************)
(* The calls of the metrics checked                                        *)
(***************************************************************************)
\* The longest exhaustively enumerated argument of a metric
MaxMetricLen == 12

\* The metrics read the length of their arguments only.
BoundedMetricTexts == {[i \in 1..n |-> "x"] : n \in 0..MaxMetricLen}

\* compression-utils.test.ts: should calculate compression ratio correctly
RatioTestOriginal ==
  <<"T", "h", "i", "s", " ", "i", "s", " ", "a", " ", "v", "e", "r", "y", " ", "l",
     "o", "n", "g", " ", "t", "e", "x", "t", " ", "w", "i", "t", "h", " ", "m", "a",
     "n", "y", " ", "w", "o", "r", "d", "s">>

RatioTestCompressed ==
  <<"l", "o", "n", "g", " ", "t", "e", "x", "t", " ", "m", "a", "n", "y", " ", "w",
     "o", "r", "d", "s">>

\* should estimate token reduction
TokenTestOriginal ==
  <<"T", "h", "i", "s", " ", "i", "s", " ", "a", " ", "v", "e", "r", "y", " ", "l",
     "o", "n", "g", " ", "t", "e", "x", "t", " ", "w", "i", "t", "h", " ", "m", "a",
     "n", "y", " ", "w", "o", "r", "d", "s", " ", "t", "h", "a", "t", " ", "n", "e",
     "e", "d", "s", " ", "c", "o", "m", "p", "r", "e", "s", "s", "i", "o", "n">>

TokenTestCompressed ==
  <<"l", "o", "n", "g", " ", "t", "e", "x", "t", " ", "m", "a", "n", "y", " ", "w",
     "o", "r", "d", " ", "n", "e", "e", "d", " ", "c", "o", "m", "p", "r", "e", "s",
     "s">>

MetricTexts ==
  BoundedMetricTexts \cup
  {RatioTestOriginal, RatioTestCompressed, TokenTestOriginal, TokenTestCompressed}

\* Each metric is still to be called.
MetricsInit ==
  /\ original \in MetricTexts
  /\ compressedArg \in MetricTexts
  /\ ratio = NotCalled
  /\ reduction = NotCalled
  /\ NoCompressCall
  /\ NoConcurrentCalls
  /\ NoSelection
  /\ NoRequest
  /\ NoHook
  /\ NoGeneration

MetricsNext == CalculateCompressionRatio \/ EstimateTokenReduction

MetricsSpec == MetricsInit /\ [][MetricsNext]_vars

(***************************************************************************)
(* Concurrent calls                                                        *)
(*                                                                         *)
(* Several calls of compressText and the metrics, their steps interleaved. *)
(* Each call has its own arguments and local; the Set commonStopwords of   *)
(* the module is the one object all calls reach.                           *)
(***************************************************************************)
\* The number of concurrent calls of compressText
NumCalls == 2

CallIds == 1..NumCalls

TheCatsText == <<"t", "h", "e", " ", "c", "a", "t", "s">>

ConcurrentTexts == {TheCatsText, UseApiText, TestsCommaText}

ConcurrentOptions ==
  { NoOptions,
    [removeStopwords |-> FALSE],
    [removePunctuation |-> TRUE, stemmerType |-> "lancaster"] }

\* A destructured field of the options of call c, with its default
callOptionOr(c, field, default) ==
  IF field \in DOMAIN calls[c].options THEN calls[c].options[field] ELSE default

\* removeStopwords, its filter reading the shared Set: commonStopwords.has(lowerWord)
removeStopwordsShared(t) ==
  join(SelectSeq(split(t),
                 LAMBDA word : lowerWord(word) # <<>> /\ lowerWord(word) \notin stopwordSet))

\* Faulty variant: the stage remembers the words it kept in the shared Set.
CallStopwordsRemembering(c) ==
  /\ calls[c].pc = "stopwords"
  /\ calls' = [calls EXCEPT
                 ![c].compressed = IF callOptionOr(c, "removeStopwords", TRUE)
                                   THEN removeStopwordsShared(calls[c].compressed)
                                   ELSE calls[c].compressed,
                 ![c].pc = "punctuation"]
  /\ stopwordSet' = stopwordSet \cup
                      {lowerWord(split(calls[c].compressed)[k]) :
                         k \in DOMAIN split(calls[c].compressed)}
  /\ UNCHANGED outsideCalls

CallStopwords(c) ==
  /\ calls[c].pc = "stopwords"
  /\ calls' = [calls EXCEPT
                 ![c].compressed = IF callOptionOr(c, "removeStopwords", TRUE)
                                   THEN removeStopwordsShared(calls[c].compressed)
                                   ELSE calls[c].compressed,
                 ![c].pc = "punctuation"]
  /\ UNCHANGED <<stopwordSet, outsideCalls>>

CallPunctuation(c) ==
  /\ calls[c].pc = "punctuation"
  /\ calls' = [calls EXCEPT
                 ![c].compressed = IF callOptionOr(c, "removePunctuation", FALSE)
                                   THEN removePunctuation(calls[c].compressed)
                                   ELSE calls[c].compressed,
                 ![c].pc = "stemming"]
  /\ UNCHANGED <<stopwordSet, outsideCalls>>

CallStemming(c) ==
  /\ calls[c].pc = "stemming"
  /\ calls' = [calls EXCEPT
                 ![c].compressed = IF callOptionOr(c, "useStemming", TRUE)
                                   THEN applyStemming(calls[c].compressed,
                                                      callOptionOr(c, "stemmerType", "porter"))
                                   ELSE calls[c].compressed,
                 ![c].pc = "spaces"]
  /\ UNCHANGED <<stopwordSet, outsideCalls>>

CallSpaces(c) ==
  /\ calls[c].pc = "spaces"
  /\ calls' = [calls EXCEPT
                 ![c].compressed = IF callOptionOr(c, "removeSpaces", TRUE)
                                   THEN removeExtraSpaces(calls[c].compressed)
                                   ELSE calls[c].compressed,
                 ![c].pc = "done"]
  /\ UNCHANGED <<stopwordSet, outsideCalls>>

\* Every call is entered with its arguments; the metrics are still to be called.
ConcurrentInit ==
  /\ calls \in [CallIds -> {[text |-> t, options |-> o, pc |-> "stopwords", compressed |-> t] :
                               t \in ConcurrentTexts, o \in ConcurrentOptions}]
  /\ stopwordSet = commonStopwords
  /\ original \in {RatioTestOriginal, <<>>}
  /\ compressedArg = RatioTestCompressed
  /\ ratio = NotCalled
  /\ reduction = NotCalled
  /\ NoCompressCall
  /\ NoSelection
  /\ NoRequest
  /\ NoHook
  /\ NoGeneration

ConcurrentNext ==
  \/ \E c \in CallIds :
       CallStopwords(c) \/ CallPunctuation(c) \/ CallStemming(c) \/ CallSpaces(c)
  \/ CalculateCompressionRatio
  \/ EstimateTokenReduction

ConcurrentSpec == ConcurrentInit /\ [][ConcurrentNext]_vars

(***************************************************************************)
(* lib/dependency-rules.ts: autoCorrectSelections                          *)
(*                                                                         *)
(* A selection is a Record<string, string | string[]>: each category holds *)
(* a string, an array of strings, or nothing (undefined).                  *)
(***************************************************************************)
Str(value) == [type |-> "string", value |-> value]

Arr(items) == [type |-> "array", items |-> items]

Undefined == [type |-> "undefined"]

\* ['python', 'php', 'java', 'go', 'rust']
BackendLanguages == {"python", "php", "java", "go", "rust"}

\* corrected.language as string, for Array.prototype.includes
IsBackendLanguage(v) == v.type = "string" /\ v.value \in BackendLanguages

backendLangMap ==
  ("django" :> "python") @@ ("fastapi" :> "python") @@ ("python-flask" :> "python") @@
  ("laravel" :> "php") @@ ("spring-boot" :> "java") @@ ("go" :> "go")

metaFrameworkMap == ("nextjs" :> "react") @@ ("nuxtjs" :> "vue") @@ ("sveltekit" :> "svelte")

\* The branch that clears the frontend selections is taken.
ClearsFrontend(newCategory, newValue) ==
  \/ newCategory = "language" /\ newValue \in BackendLanguages
  \/ newCategory = "backend" /\ newValue \in DOMAIN backendLangMap

\* (corrected.styling as string[])?.filter(s => s === 'css' || s === 'tailwind') || []
\* for a styling that is an array or undefined
filteredStyling(styling) ==
  IF styling.type = "array"
  THEN Arr(SelectSeq(styling.items, LAMBDA item : item = "css" \/ item = "tailwind"))
  ELSE Arr(<<>>)

\* The four assignments that clear the frontend selections
clearFrontend(corrected) ==
  [corrected EXCEPT !.frontend = Str("none"),
                    !.metaFramework = Str("none"),
                    !.styling = filteredStyling(corrected.styling),
                    !.stateManagement = Arr(<<"none">>)]

\* The object the function returns, when it returns
correctedSelections(newCategory, newValue, currentSelections) ==
  LET applied == [currentSelections EXCEPT ![newCategory] = Str(newValue)]
      afterLanguage ==
        IF newCategory = "language" /\ newValue \in BackendLanguages
        THEN clearFrontend(applied) ELSE applied
      afterFrontend ==
        IF newCategory = "frontend" /\ newValue # "none" /\ IsBackendLanguage(afterLanguage.language)
        THEN [afterLanguage EXCEPT !.language = Str("typescript")] ELSE afterLanguage
      afterBackend ==
        IF newCategory = "backend" /\ newValue \in DOMAIN backendLangMap
        THEN clearFrontend([afterFrontend EXCEPT !.language = Str(backendLangMap[newValue])])
        ELSE afterFrontend
  IN  IF newCategory = "metaFramework" /\ newValue \in DOMAIN metaFrameworkMap
      THEN [afterBackend EXCEPT !.frontend = Str(metaFrameworkMap[newValue])]
      ELSE afterBackend

\* Faulty variant: without the copy { ...currentSelections } the function writes
\* into the object it was given.
autoCorrectSelectionsInPlace(newCategory, newValue, currentSelections) ==
  IF ClearsFrontend(newCategory, newValue) /\ currentSelections.styling.type = "string"
  THEN [threw |-> TRUE,
        argument |-> [currentSelections EXCEPT ![newCategory] = Str(newValue),
                                               !.frontend = Str("none"),
                                               !.metaFramework = Str("none")]]
  ELSE [threw |-> FALSE,
        corrected |-> correctedSelections(newCategory, newValue, currentSelections),
        argument |-> correctedSelections(newCategory, newValue, currentSelections)]

\* A call: it returns `corrected`, or .filter is called on a string and throws a
\* TypeError; `argument` is the object passed as currentSelections after the call.
autoCorrectSelections(newCategory, newValue, currentSelections) ==
  IF ClearsFrontend(newCategory, newValue) /\ currentSelections.styling.type = "string"
  THEN [threw |-> TRUE, argument |-> currentSelections]
  ELSE [threw |-> FALSE,
        corrected |-> correctedSelections(newCategory, newValue, currentSelections),
        argument |-> currentSelections]

\* The options of each category the calls choose from
CategoryValues ==
  [ language |-> {"typescript", "javascript", "python", "php", "java", "go", "rust"},
    frontend |-> {"none", "react", "vue", "svelte"},
    metaFramework |-> {"none", "vite", "nextjs", "nuxtjs", "sveltekit"},
    backend |-> {"none", "nodejs", "django", "laravel", "go"},
    styling |-> {"tailwind", "shadcn-ui"},
    stateManagement |-> {"redux"} ]

Categories == DOMAIN CategoryValues

\* The caller selects a value: the selection it holds goes in, and the result
\* replaces it, unless the call threw.
AutoCorrectSelections(newCategory, newValue) ==
  LET outcome == autoCorrectSelections(newCategory, newValue, selection)
  IN  /\ lastCall' = [newCategory |-> newCategory, newValue |-> newValue,
                      passed |-> selection, outcome |-> outcome]
      /\ selection' = IF outcome.threw THEN selection ELSE outcome.corrected
      /\ UNCHANGED outsideSelection

\* A selection is consistent when a backend language comes with no frontend
\* framework and no JavaScript meta-framework.
IsConsistent(sel) ==
  IsBackendLanguage(sel.language) =>
    /\ sel.frontend = Str("none")
    /\ sel.metaFramework \in {Str("none"), Str("vite")}

InitialSelections ==
  { sel \in [ language : {Str(v) : v \in CategoryValues.language},
              frontend : {Str(v) : v \in CategoryValues.frontend},
              metaFramework : {Str(v) : v \in CategoryValues.metaFramework},
              backend : {Str("none")},
              styling : {Undefined, Arr(<<"tailwind", "shadcn-ui">>)},
              stateManagement : {Undefined, Arr(<<"redux">>)} ] :
      IsConsistent(sel) }

NoCall == [newCategory |-> "none"]

SelectionInit ==
  /\ selection \in InitialSelections
  /\ lastCall = NoCall
  /\ NoCompressCall
  /\ NoMetricCall
  /\ NoConcurrentCalls
  /\ NoRequest
  /\ NoHook
  /\ NoGeneration

SelectionNext ==
  \E newCategory \in Categories : \E newValue \in CategoryValues[newCategory] :
    AutoCorrectSelections(newCategory, newValue)

SelectionSpec == SelectionInit /\ [][SelectionNext]_vars

(***************************************************************************)
(* app/api/rules/route.ts: GET                                             *)
(*                                                                         *)
(* A file name is a sequence of characters; a path is the sequence of its  *)
(* segments.  Whether fs.readFile succeeds is not the handler's to decide: *)
(* each read may succeed or fail.                                          *)
(***************************************************************************)
DotMd == <<".", "m", "d">>

\* String.prototype.split(separator): the pieces between the separators, empty
\* pieces kept
RECURSIVE splitAt(_, _, _, _)
splitAt(s, separator, piece, pieces) ==
  IF s = <<>> THEN Append(pieces, piece)
  ELSE IF Head(s) = separator THEN splitAt(Tail(s), separator, <<>>, Append(pieces, piece))
  ELSE splitAt(Tail(s), separator, Append(piece, Head(s)), pieces)

\* Faulty variant: the file name is used as it was requested.
pathBasenameKept(p) == p

\* path.basename (POSIX): trailing slashes dropped, then what follows the last slash
RECURSIVE pathBasename(_)
pathBasename(p) ==
  IF p = <<>> THEN <<>>
  ELSE IF p[Len(p)] = "/" THEN pathBasename(SubSeq(p, 1, Len(p) - 1))
  ELSE LET pieces == splitAt(p, "/", <<>>, <<>>) IN pieces[Len(pieces)]

\* path.normalize on segments: empty and . segments dropped, .. leaves the directory
RECURSIVE normalize(_, _)
normalize(segments, done) ==
  IF segments = <<>> THEN done
  ELSE IF Head(segments) \in {<<>>, <<".">>} THEN normalize(Tail(segments), done)
  ELSE IF Head(segments) = <<".", ".">>
       THEN normalize(Tail(segments),
                      IF done = <<>> THEN done ELSE SubSeq(done, 1, Len(done) - 1))
  ELSE normalize(Tail(segments), Append(done, Head(segments)))

\* path.join(directory, name)
pathJoin(directory, name) == normalize(directory \o splitAt(name, "/", <<>>, <<>>), <<>>)

\* path.join(process.cwd(), 'templates')
templatesDir == << <<"c", "w", "d">>, <<"t", "e", "m", "p", "l", "a", "t", "e", "s">> >>

\* const sanitizedFileName = path.basename(fileName)
sanitizedFileName == pathBasename(Head(fileNames))

NoResponse == [status |-> 0]

\* Lines 7-15: the file names of the query; 400 if there are none
GetStart ==
  /\ routePc = "start"
  /\ LET names == IF filesParam.present THEN splitAt(filesParam.value, ",", <<>>, <<>>)
                   ELSE <<>>
     IN  /\ fileNames' = names
         /\ IF Len(names) = 0
            THEN /\ response' = [status |-> 400, error |-> "No files requested"]
                 /\ routePc' = "done"
            ELSE /\ response' = response
                 /\ routePc' = "loop"
  /\ contents' = <<>>
  /\ UNCHANGED <<filesParam, reads, outsideRoute>>

\* Lines 19-22: a name that does not end in .md is skipped
SkipFile ==
  /\ routePc = "loop"
  /\ fileNames # <<>>
  /\ ~endsWith(sanitizedFileName, DotMd)
  /\ fileNames' = Tail(fileNames)
  /\ UNCHANGED <<filesParam, contents, reads, response, routePc, outsideRoute>>

\* Lines 24-28: the file is read and stored under its sanitized name
ReadFile ==
  /\ routePc = "loop"
  /\ fileNames # <<>>
  /\ endsWith(sanitizedFileName, DotMd)
  /\ reads' = Append(reads, [path |-> pathJoin(templatesDir, sanitizedFileName),
                             key |-> sanitizedFileName, ok |-> TRUE])
  /\ contents' = (sanitizedFileName :> "content") @@ contents
  /\ fileNames' = Tail(fileNames)
  /\ UNCHANGED <<filesParam, response, routePc, outsideRoute>>

\* Lines 24-32: fs.readFile rejects, the error is logged and the loop goes on
ReadFileFails ==
  /\ routePc = "loop"
  /\ fileNames # <<>>
  /\ endsWith(sanitizedFileName, DotMd)
  /\ reads' = Append(reads, [path |-> pathJoin(templatesDir, sanitizedFileName),
                             key |-> sanitizedFileName, ok |-> FALSE])
  /\ fileNames' = Tail(fileNames)
  /\ UNCHANGED <<filesParam, contents, response, routePc, outsideRoute>>

\* Line 35: return NextResponse.json({ contents })
Respond ==
  /\ routePc = "loop"
  /\ fileNames = <<>>
  /\ response' = [status |-> 200, contents |-> contents]
  /\ routePc' = "done"
  /\ UNCHANGED <<filesParam, fileNames, contents, reads, outsideRoute>>

\* The longest exhaustively enumerated value of the parameter
MaxParamLen == 6

ParamAlphabet == {".", "/", ",", "m", "d"}

BoundedParams == UNION {[1..n -> ParamAlphabet] : n \in 0..MaxParamLen}

TraversalParam ==
  <<".", ".", "/", ".", ".", "/", "e", "t", "c", "/", "p", "a", "s", "s", "w", "d", ".", "m", "d", ",", "r", "e", "a", "c", "t", ".", "m", "d">>

MissingParam == <<"r", "e", "a", "c", "t", ".", "m", "d", ",", "r", "e", "d", "u", "x", ".", "m", "d">>

NoExtensionParam == <<"r", "e", "a", "c", "t", ",", "/", "e", "t", "c", "/", "p", "a", "s", "s", "w", "d", ",", ".", ".">>

ExampleParams == {TraversalParam, MissingParam, NoExtensionParam}

RouteInit ==
  /\ filesParam \in {[present |-> FALSE]} \cup
                     {[present |-> TRUE, value |-> v] : v \in BoundedParams \cup ExampleParams}
  /\ fileNames = <<>>
  /\ contents = <<>>
  /\ reads = <<>>
  /\ response = NoResponse
  /\ routePc = "start"
  /\ NoCompressCall
  /\ NoMetricCall
  /\ NoConcurrentCalls
  /\ NoSelection
  /\ NoHook
  /\ NoGeneration

RouteNext == GetStart \/ SkipFile \/ ReadFile \/ ReadFileFails \/ Respond

RouteSpec == RouteInit /\ [][RouteNext]_vars

(***************************************************************************)
(* hooks/use-rules-generator.ts: useRulesGenerator                         *)
(*                                                                         *)
(* A call of generateRules runs to its first await, and goes on when the   *)
(* awaited promise is settled; whether a promise is fulfilled or rejected, *)
(* and whether downloadFile throws, is not the hook's to decide.  The      *)
(* setters may be called at any time.                                      *)
(***************************************************************************)
\* ToolType
ToolTypes == {"cursor", "claude", "windsurf", "aider", "all"}

\* useState<Partial<TechStack>>({...}): the initial tech stack
DefaultTechStack ==
  [frontend |-> "react", metaFramework |-> "nextjs", styling |-> <<"tailwind", "shadcn-ui">>,
   language |-> "typescript", stateManagement |-> <<"context-api">>]

\* useState<string[]>([...]): the initial best practices
DefaultBestPractices ==
  <<"code-quality", "git-workflow", "error-handling", "performance", "security">>

\* The tools setSelectedTool is called with; aider takes the path of windsurf
\* (more than one file, downloadZip)
SelectedTools == ToolTypes \ {"aider"}

\* The tech stacks and best practices the setters are called with
TechStacks == {[field \in {} |-> TRUE], DefaultTechStack}

BestPracticeLists == {<<>>, DefaultBestPractices}

\* canGenerate: selectedTool is a non-empty string
canGenerate == Cardinality(DOMAIN techStack) > 0 \/ Len(bestPractices) > 0

\* generateToolSpecificFiles: the file names of the generated rules; the .mdc
\* files of cursor are those of generateCursorMDCFiles
toolSpecificFiles(tool, mdcFiles) ==
  (CASE tool = "cursor" -> mdcFiles
     [] tool = "claude" -> <<"CLAUDE.md">>
     [] tool = "windsurf" -> <<".windsurfrules">>
     [] tool = "aider" -> <<"CONVENTIONS.md", ".aider.yaml">>
     [] tool = "all" -> mdcFiles \o <<"CLAUDE.md", ".windsurfrules", "CONVENTIONS.md", ".aider.yaml">>)
  \o <<"README.md">>

\* What generateCursorMDCFiles may return: nothing was loaded and there are no
\* custom rules, or there are custom rules
MdcFileLists == {<<>>, <<"project-guidelines.mdc">>}

NumGenerateCalls == 2

GenerateCallIds == 1..NumGenerateCalls

\* Faulty variant: the call returns without resetting isGenerating.
FinallyForgotten(c) ==
  /\ isGenerating' = isGenerating
  /\ generateCalls' = [generateCalls EXCEPT ![c] = [pc |-> "returned"]]

\* finally { setIsGenerating(false) }, and the call returns
Finally(c) ==
  /\ isGenerating' = FALSE
  /\ generateCalls' = [generateCalls EXCEPT ![c] = [pc |-> "returned"]]

\* downloadFile(content, filename): the download is triggered or a DOM call throws;
\* either way the finally clause runs
DownloadFile(c, filename) ==
  /\ \E threw \in BOOLEAN :
       downloads' = IF threw THEN downloads
                    ELSE downloads \cup {[call |-> c, kind |-> "file", name |-> filename]}
  /\ Finally(c)

\* await downloadZip(rulesContent, packageName)
AwaitDownloadZip(c, packageName) ==
  /\ generateCalls' = [generateCalls EXCEPT ![c] = [pc |-> "downloadZip", package |-> packageName]]
  /\ UNCHANGED <<isGenerating, downloads>>

\* Lines 35-41: return if canGenerate is false; else setIsGenerating(true) and
\* await generateRulesContent.  The calls are numbered in the order they are made.
CallGenerateRules(c) ==
  /\ generateCalls[c].pc = "idle"
  /\ \A earlier \in 1..(c - 1) : generateCalls[earlier].pc # "idle"
  /\ IF ~canGenerate
     THEN /\ generateCalls' = [generateCalls EXCEPT ![c] = [pc |-> "returned"]]
          /\ isGenerating' = isGenerating
     ELSE /\ isGenerating' = TRUE
          /\ generateCalls' = [generateCalls EXCEPT ![c] =
                                 [pc |-> "generateRulesContent", tool |-> selectedTool]]
  /\ UNCHANGED <<selectedTool, techStack, bestPractices, downloads, outsideHook>>

\* Lines 41-70: generateRulesContent is fulfilled and the download is chosen
ContentFulfilled(c) ==
  /\ generateCalls[c].pc = "generateRulesContent"
  /\ \E mdcFiles \in MdcFileLists :
       LET tool == generateCalls[c].tool
           rulesFiles == toolSpecificFiles(tool, mdcFiles)
       IN  IF tool = "all" THEN AwaitDownloadZip(c, "llm-rules-package")
           ELSE IF tool = "cursor" THEN AwaitDownloadZip(c, "cursor-rules")
           ELSE IF tool = "claude" /\ Len(rulesFiles) = 2
                THEN IF \E i \in DOMAIN rulesFiles : rulesFiles[i] = "CLAUDE.md"
                     THEN DownloadFile(c, "CLAUDE.md")
                     ELSE Finally(c) /\ downloads' = downloads
           ELSE IF Len(rulesFiles) = 1 THEN DownloadFile(c, rulesFiles[1])
           ELSE AwaitDownloadZip(c, tool)
  /\ UNCHANGED <<selectedTool, techStack, bestPractices, outsideHook>>

\* Lines 41, 71-76: generateRulesContent is rejected
ContentRejected(c) ==
  /\ generateCalls[c].pc = "generateRulesContent"
  /\ Finally(c)
  /\ UNCHANGED <<selectedTool, techStack, bestPractices, downloads, outsideHook>>

\* downloadZip is fulfilled: the zip was offered for download
ZipFulfilled(c) ==
  /\ generateCalls[c].pc = "downloadZip"
  /\ downloads' = downloads \cup {[call |-> c, kind |-> "zip", name |-> generateCalls[c].package]}
  /\ Finally(c)
  /\ UNCHANGED <<selectedTool, techStack, bestPractices, outsideHook>>

\* downloadZip is rejected
ZipRejected(c) ==
  /\ generateCalls[c].pc = "downloadZip"
  /\ Finally(c)
  /\ UNCHANGED <<selectedTool, techStack, bestPractices, downloads, outsideHook>>

\* The awaited promise of call c is settled and the call goes on
Settle(c) == ContentFulfilled(c) \/ ContentRejected(c) \/ ZipFulfilled(c) \/ ZipRejected(c)

SetSelectedTool(tool) ==
  /\ selectedTool' = tool
  /\ UNCHANGED <<techStack, bestPractices, isGenerating, generateCalls, downloads, outsideHook>>

SetTechStack(stack) ==
  /\ techStack' = stack
  /\ UNCHANGED <<selectedTool, bestPractices, isGenerating, generateCalls, downloads, outsideHook>>

SetBestPractices(practices) ==
  /\ bestPractices' = practices
  /\ UNCHANGED <<selectedTool, techStack, isGenerating, generateCalls, downloads, outsideHook>>

\* The state of the first render
HookInit ==
  /\ selectedTool = "cursor"
  /\ techStack = DefaultTechStack
  /\ bestPractices = DefaultBestPractices
  /\ isGenerating = FALSE
  /\ generateCalls = [c \in GenerateCallIds |-> [pc |-> "idle"]]
  /\ downloads = {}
  /\ NoCompressCall
  /\ NoMetricCall
  /\ NoConcurrentCalls
  /\ NoSelection
  /\ NoRequest
  /\ NoGeneration

HookNext ==
  \/ \E c \in GenerateCallIds : CallGenerateRules(c)
  \/ \E c \in GenerateCallIds : ContentFulfilled(c)
  \/ \E c \in GenerateCallIds : ContentRejected(c)
  \/ \E c \in GenerateCallIds : ZipFulfilled(c)
  \/ \E c \in GenerateCallIds : ZipRejected(c)
  \/ \E tool \in SelectedTools : SetSelectedTool(tool)
  \/ \E stack \in TechStacks : SetTechStack(stack)
  \/ \E practices \in BestPracticeLists : SetBestPractices(practices)

HookSpec == HookInit /\ [][HookNext]_vars

\* An awaited promise is settled, and the event loop runs what waits for it:
\* while some call waits, one of the waiting calls goes on
HookLiveSpec == HookSpec /\ WF_hookVars(\E c \in GenerateCallIds : Settle(c))

(***************************************************************************)
(* lib/rules-generator.ts and its markdown loader: the cursor package      *)
(*                                                                         *)
(* A file is its name (and path); the contents of the rule files play no   *)
(* part.  Which of the requested markdown files /api/rules returns is not  *)
(* the generator's to decide: any subset of them may be loaded.            *)
(***************************************************************************)
\* rules-generator.ts: TECH_FILE_MAPPINGS
TECH_FILE_MAPPINGS ==
  "php" :> "php.md" @@ "java" :> "java.md" @@ "rust" :> "rust.md" @@
  "react" :> "react.md" @@ "vue" :> "vue.md" @@ "angular" :> "angular.md" @@
  "svelte" :> "svelte.md" @@ "solidjs" :> "solidjs.md" @@ "qwik" :> "qwik.md" @@
  "astro" :> "astro.md" @@ "nextjs" :> "nextjs.md" @@ "nuxtjs" :> "nuxtjs.md" @@
  "sveltekit" :> "sveltekit.md" @@ "vite" :> "vite.md" @@ "nodejs" :> "nodejs.md" @@
  "django" :> "django.md" @@ "fastapi" :> "fastapi.md" @@ "laravel" :> "laravel.md" @@
  "python-flask" :> "python-flask.md" @@ "spring-boot" :> "spring-boot.md" @@
  "go" :> "go.md" @@ "typescript" :> "typescript.md" @@ "python" :> "python.md" @@
  "tailwind" :> "tailwind-css.md" @@ "css" :> "css-scss.md" @@
  "material-ui" :> "material-ui.md" @@ "chakra-ui" :> "chakra-ui.md" @@
  "shadcn-ui" :> "shadcn-ui.md" @@ "flutter" :> "flutter.md" @@ "jest" :> "jest.md" @@
  "vitest" :> "vitest.md" @@ "redux" :> "redux.md" @@ "zustand" :> "zustand.md" @@
  "postgresql" :> "postgresql.md"

\* rules-generator.ts: PRACTICE_FILE_MAPPINGS
PRACTICE_FILE_MAPPINGS ==
  "code-quality" :> "clean-code.md" @@ "testing" :> "testing.md" @@
  "security" :> "security.md" @@ "performance" :> "performance.md" @@
  "git-workflow" :> "git-workflow.md" @@ "api-design" :> "api-design.md" @@
  "database" :> "database.md" @@ "error-handling" :> "error-handling.md"

\* markdown-loader: TECH_FILE_MAPPINGS
LOADER_TECH_FILE_MAPPINGS ==
  "react" :> "react.md" @@ "vue" :> "vue.md" @@ "angular" :> "angular.md" @@
  "svelte" :> "svelte.md" @@ "nextjs" :> "nextjs.md" @@ "nodejs" :> "nodejs.md" @@
  "django" :> "django.md" @@ "fastapi" :> "fastapi.md" @@ "laravel" :> "laravel.md" @@
  "go" :> "go.md" @@ "typescript" :> "typescript.md" @@ "python" :> "python.md" @@
  "tailwind" :> "tailwind-css.md" @@ "css" :> "css-scss.md" @@ "flutter" :> "flutter.md"

\* markdown-loader: PRACTICE_FILE_MAPPINGS
LOADER_PRACTICE_FILE_MAPPINGS ==
  "code-quality" :> "clean-code.md" @@ "testing" :> "testing.md" @@
  "security" :> "security.md" @@ "performance" :> "performance.md" @@
  "git-workflow" :> "git-workflow.md" @@ "api-design" :> "api-design.md" @@
  "database" :> "database.md"

\* stack.field is a non-empty string
truthy(stack, field) == field \in DOMAIN stack /\ stack[field] # ""

\* stack.styling?.length
hasStyling(stack) == "styling" \in DOMAIN stack /\ Len(stack.styling) > 0

\* The items of a sequence
itemsOf(s) == {s[i] : i \in DOMAIN s}

\* loadMarkdownRules: uniqueFiles, the files asked of /api/rules
filesToLoad(stack, practices) ==
  {LOADER_TECH_FILE_MAPPINGS[stack[field]] :
     field \in {f \in {"frontend", "metaFramework", "backend", "language", "mobile"} :
                  truthy(stack, f) /\ stack[f] \in DOMAIN LOADER_TECH_FILE_MAPPINGS}}
  \cup {LOADER_TECH_FILE_MAPPINGS[style] :
          style \in {st \in (IF "styling" \in DOMAIN stack THEN itemsOf(stack.styling) ELSE {}) :
                       st \in DOMAIN LOADER_TECH_FILE_MAPPINGS}}
  \cup {LOADER_PRACTICE_FILE_MAPPINGS[practice] :
          practice \in {pr \in itemsOf(practices) : pr \in DOMAIN LOADER_PRACTICE_FILE_MAPPINGS}}

\* markdownContents[TECH_FILE_MAPPINGS[key]] is a non-empty string
techLoaded(loaded, key) ==
  key \in DOMAIN TECH_FILE_MAPPINGS /\ TECH_FILE_MAPPINGS[key] \in DOMAIN loaded

\* markdownContents[PRACTICE_FILE_MAPPINGS[key]] is a non-empty string
practiceLoaded(loaded, key) ==
  key \in DOMAIN PRACTICE_FILE_MAPPINGS /\ PRACTICE_FILE_MAPPINGS[key] \in DOMAIN loaded

\* files.push({ filename, content, path: ".cursor/rules/" })
mdcFile(filename) == [filename |-> filename, path |-> ".cursor/rules/"]

\* array.map(item => Item(item))
mapOver(s, Item(_)) == [i \in DOMAIN s |-> Item(s[i])]

\* Lines 113-235 of generateCursorMDCFiles: the files pushed, in order
generateCursorMDCFiles(cfg, loaded) ==
  LET stack == cfg.techStack
      practices == cfg.bestPractices
  IN  (IF cfg.customRules # "" THEN <<mdcFile("project-guidelines.mdc")>> ELSE <<>>)
      \o (IF truthy(stack, "frontend") /\ techLoaded(loaded, stack.frontend)
          THEN <<mdcFile(stack.frontend \o "-patterns.mdc")>> ELSE <<>>)
      \o (IF truthy(stack, "metaFramework") /\ techLoaded(loaded, stack.metaFramework)
          THEN <<mdcFile(stack.metaFramework \o "-conventions.mdc")>> ELSE <<>>)
      \o (IF truthy(stack, "language") /\ techLoaded(loaded, stack.language)
          THEN <<mdcFile(stack.language \o "-guidelines.mdc")>> ELSE <<>>)
      \o (IF hasStyling(stack)
          THEN mapOver(SelectSeq(stack.styling, LAMBDA style : techLoaded(loaded, style)),
                       LAMBDA style : mdcFile(style \o "-styling.mdc"))
          ELSE <<>>)
      \o (IF "testing" \in itemsOf(practices) /\ practiceLoaded(loaded, "testing")
          THEN <<mdcFile("testing-standards.mdc")>> ELSE <<>>)
      \o (IF "code-quality" \in itemsOf(practices) /\ practiceLoaded(loaded, "code-quality")
          THEN <<mdcFile("code-quality.mdc")>> ELSE <<>>)
      \o mapOver(SelectSeq(practices, LAMBDA practice :
                             /\ practice # "testing"
                             /\ practice # "code-quality"
                             /\ practiceLoaded(loaded, practice)),
                 LAMBDA practice : mdcFile(practice \o ".mdc"))

\* getCursorRulesList: the file name each line of the list names, and whether
\* the line says (always active)
getCursorRulesList(cfg) ==
  LET stack == cfg.techStack
      listed(filename) == [filename |-> filename, alwaysActive |-> FALSE]
  IN  (IF cfg.customRules # "" THEN <<listed("project-guidelines.mdc")>> ELSE <<>>)
      \o (IF truthy(stack, "frontend")
          THEN <<listed(stack.frontend \o "-patterns.mdc")>> ELSE <<>>)
      \o (IF truthy(stack, "metaFramework")
          THEN <<listed(stack.metaFramework \o "-conventions.mdc")>> ELSE <<>>)
      \o (IF truthy(stack, "language")
          THEN <<listed(stack.language \o "-guidelines.mdc")>> ELSE <<>>)
      \o (IF hasStyling(stack)
          THEN mapOver(stack.styling, LAMBDA style : listed(style \o "-styling.mdc"))
          ELSE <<>>)
      \o mapOver(cfg.bestPractices,
                 LAMBDA practice : [filename |-> practice \o ".mdc",
                                    alwaysActive |-> practice = "code-quality"])

\* generateReadme("cursor", config): the README and its Included Rules
generateReadme(cfg) == [filename |-> "README.md", includedRules |-> getCursorRulesList(cfg)]

\* loadMarkdownRules: {} if nothing is asked for or the request fails, else the
\* contents /api/rules returned, which omit the files it could not read
LoadMarkdownRules ==
  /\ generatorPc = "loadMarkdownRules"
  /\ \E loaded \in SUBSET filesToLoad(config.techStack, config.bestPractices) :
       markdownContents' = [file \in loaded |-> "content"]
  /\ generatorPc' = "generateCursorMDCFiles"
  /\ UNCHANGED <<config, files, outsideGenerator>>

\* generateToolSpecificFiles, case "cursor": files.push(...mdcFiles)
GenerateCursorMDCFiles ==
  /\ generatorPc = "generateCursorMDCFiles"
  /\ files' = files \o generateCursorMDCFiles(config, markdownContents)
  /\ generatorPc' = "generateReadme"
  /\ UNCHANGED <<config, markdownContents, outsideGenerator>>

\* generateToolSpecificFiles: files.push({ filename: "README.md", ... })
GenerateReadme ==
  /\ generatorPc = "generateReadme"
  /\ files' = Append(files, generateReadme(config))
  /\ generatorPc' = "done"
  /\ UNCHANGED <<config, markdownContents, outsideGenerator>>

\* The selections the generator is called with
FrontendChoices == {"", "none", "react", "solidjs"}

MetaFrameworkChoices == {"", "nextjs"}

LanguageChoices == {"", "typescript"}

StylingChoices == {<<>>, <<"tailwind">>, <<"tailwind", "shadcn-ui">>}

BestPracticeChoices ==
  {<<>>, <<"testing">>, <<"code-quality", "security">>, <<"error-handling", "documentation">>}

CustomRulesChoices == {"", "Use pnpm."}

\* A tech stack with the given selections; an empty selection is an absent key
techStackOf(frontend, metaFramework, language, styling) ==
  LET chosen == [frontend |-> frontend, metaFramework |-> metaFramework, language |-> language]
      keys == {key \in DOMAIN chosen : chosen[key] # ""}
  IN  IF styling = <<>> THEN [key \in keys |-> chosen[key]]
      ELSE [key \in keys \cup {"styling"} |-> IF key = "styling" THEN styling ELSE chosen[key]]

GeneratorConfigs ==
  {[techStack |-> techStackOf(frontend, metaFramework, language, styling),
    bestPractices |-> practices, customRules |-> customRules] :
     frontend \in FrontendChoices, metaFramework \in MetaFrameworkChoices,
     language \in LanguageChoices, styling \in StylingChoices,
     practices \in BestPracticeChoices, customRules \in CustomRulesChoices}

GeneratorInit ==
  /\ config \in GeneratorConfigs
  /\ markdownContents = <<>>
  /\ files = <<>>
  /\ generatorPc = "loadMarkdownRules"
  /\ NoCompressCall
  /\ NoMetricCall
  /\ NoConcurrentCalls
  /\ NoSelection
  /\ NoRequest
  /\ NoHook

GeneratorNext == LoadMarkdownRules \/ GenerateCursorMDCFiles \/ GenerateReadme

GeneratorSpec == GeneratorInit /\ [][GeneratorNext]_vars

(***************************************************************************)
(* Helpers of the properties                                               *)
(***************************************************************************)
IsSubstring(sub, s) == sub = <<>> \/ indexOf(s, sub) # 0

\* The letters a word spells: its characters lower-cased, those of a-z kept.
LettersOf(w) == SelectSeq([i \in DOMAIN w |-> LowerOf(w[i])], LAMBDA c : c \in Lower)

SpellsStopword(w) == LettersOf(w) \in commonStopwords

\* A word with letters that is not a stopword
IsContentWord(w) == LettersOf(w) # <<>> /\ ~SpellsStopword(w)

TokensOf(s) == split(s)

ContentWordsOf(s) == SelectSeq(TokensOf(s), IsContentWord)

\* The whitespace-delimited word of s that position i lies in
WordAround(s, i) ==
  LET first == CHOOSE a \in 1..i :
                 /\ \A k \in a..i : ~IsWs(s[k])
                 /\ a = 1 \/ IsWs(s[a - 1])
      last == CHOOSE b \in i..Len(s) :
                /\ \A k \in i..b : ~IsWs(s[k])
                /\ b = Len(s) \/ IsWs(s[b + 1])
  IN  SubSeq(s, first, last)

\* The characters of s at the positions P, in their order in s
CharactersAt(s, P) ==
  [k \in 1..Cardinality(P) |->
     s[CHOOSE i \in P : Cardinality({j \in P : j < i}) = k - 1]]

Word_test == <<"t", "e", "s", "t">>

Word_compression == <<"c", "o", "m", "p", "r", "e", "s", "s", "i", "o", "n">>

Word_API_KEY == <<"A", "P", "I", "_", "K", "E", "Y">>

Word_process_env_API_KEY ==
  <<"p", "r", "o", "c", "e", "s", "s", ".", "e", "n", "v", ".", "A", "P", "I", "_", "K", "E", "Y">>

\* The text a call hands to its first stage is `text` itself, so after the
\* stopword stage `compressed` is that stage's result for `text`.
AfterStopwords == pc = "punctuation" /\ doRemoveStopwords

\* The stage flags as the call resolved them
StageFlags == <<doRemoveStopwords, doRemovePunctuation, useStemming, doRemoveSpaces>>

(***************************************************************************)
(* C1: compressText returns the enabled stages applied in the order         *)
(* stopwords, punctuation, stemming, whitespace, each to the result of the  *)
(* one before; a disabled stage is skipped, and with all four flags false   *)
(* the text comes back unchanged.                                          *)
(***************************************************************************)
C1_StageOrder ==
  LET s1 == IF doRemoveStopwords THEN removeStopwords(text) ELSE text
      s2 == IF doRemovePunctuation THEN removePunctuation(s1) ELSE s1
      s3 == IF useStemming THEN applyStemming(s2, stemmerType) ELSE s2
      s4 == IF doRemoveSpaces THEN removeExtraSpaces(s3) ELSE s3
  IN  /\ pc = "punctuation" => compressed = s1
      /\ pc = "stemming" => compressed = s2
      /\ pc = "spaces" => compressed = s3
      /\ pc = "done" => compressed = s4
      /\ pc = "done" /\ StageFlags = <<FALSE, FALSE, FALSE, FALSE>> => compressed = text

\* A call with every stage enabled in which each of the first three stages
\* changed the text it was given.
C1_Witness ==
  /\ pc = "done"
  /\ StageFlags = <<TRUE, TRUE, TRUE, TRUE>>
  /\ removeStopwords(text) # text
  /\ removePunctuation(removeStopwords(text)) # removeStopwords(text)
  /\ compressed # removePunctuation(removeStopwords(text))

(***************************************************************************)
(* C2: for every non-empty text and every option combination the result of  *)
(* compressText is no longer than the text; the stopword stage alone never  *)
(* lengthens its input.                                                    *)
(***************************************************************************)
C2_NeverLonger ==
  text # <<>> =>
    /\ pc = "done" => Len(compressed) <= Len(text)
    /\ AfterStopwords => Len(compressed) <= Len(text)

\* A call with stemming alone, whose stem is shorter than the word.
C2_Witness ==
  /\ pc = "done"
  /\ StageFlags = <<FALSE, FALSE, TRUE, FALSE>>
  /\ text # <<>>
  /\ Len(compressed) < Len(text)

(***************************************************************************)
(* C3: compressText is total: every call, whatever the text and the         *)
(* options, runs to its return with a string (no stage fails: until the     *)
(* call has returned its next statement can execute), and the empty text    *)
(* gives the empty text under every option combination.                    *)
(***************************************************************************)
C3_Total ==
  /\ pc # "done" => ENABLED Next
  /\ \A i \in DOMAIN compressed : compressed[i] \in STRING
  /\ DOMAIN compressed = 1..Len(compressed)
  /\ pc = "done" /\ text = <<>> => compressed = <<>>

\* The call on the empty text with every stage enabled has returned.
C3_Witness ==
  /\ pc = "done"
  /\ text = <<>>
  /\ StageFlags = <<TRUE, TRUE, TRUE, TRUE>>
  /\ compressed = <<>>

StopwordsOnlyCall == pc = "done" /\ StageFlags = <<TRUE, FALSE, FALSE, TRUE>>

C4_ContentWordsKept ==
  /\ \A k \in DOMAIN TokensOf(text) :
       IsContentWord(TokensOf(text)[k]) => IsSubstring(TokensOf(text)[k], compressed)
  /\ text = StopwordTestInput =>
       /\ \A k \in DOMAIN TokensOf(compressed) :
            LettersOf(TokensOf(compressed)[k]) \notin {<<"i", "s">>, <<"a">>, <<"t", "h", "e">>}
       /\ IsSubstring(Word_test, compressed)
       /\ IsSubstring(Word_compression, compressed)

(***************************************************************************)
(* C4 as stated: with {removeStopwords: true, useStemming: false} no token  *)
(* of the output spells a stopword, every input word with letters that is   *)
(* not a stopword is a substring of the output, and for the test's input    *)
(* the output has no token is, a or the and contains test and compression.  *)
(***************************************************************************)
C4_NoStopwordToken ==
  StopwordsOnlyCall =>
    /\ \A k \in DOMAIN TokensOf(compressed) : ~SpellsStopword(TokensOf(compressed)[k])
    /\ C4_ContentWordsKept

(***************************************************************************)
(* C4 amended: with {removeStopwords: true, useStemming: false} a token of  *)
(* the output spells a stopword only when it is two or more kept input      *)
(* words joined (u s gives us), never a single word of the input.  Every    *)
(* input word with letters that is not a stopword is a substring of the     *)
(* output, and for the test's input the output has no token is, a or the    *)
(* and contains test and compression.                                      *)
(***************************************************************************)
C4_StopwordExclusion ==
  StopwordsOnlyCall =>
    /\ \A k \in DOMAIN TokensOf(compressed) :
         SpellsStopword(TokensOf(compressed)[k]) =>
           /\ Len(ContentWordsOf(text)) >= 2
           /\ TokensOf(compressed)[k] = join(ContentWordsOf(text))
    /\ C4_ContentWordsKept

\* Two kept words were joined into a stopword.
C4_Witness ==
  /\ StopwordsOnlyCall
  /\ SpellsStopword(compressed)
  /\ Len(ContentWordsOf(text)) = 2

(***************************************************************************)
(* C5: stopword removal outputs exactly the characters of the kept          *)
(* whitespace-delimited tokens of its input, unchanged and in their         *)
(* original order, with nothing between them.                              *)
(***************************************************************************)
C5_KeptTokensVerbatim ==
  AfterStopwords =>
    compressed =
      CharactersAt(text, {i \in DOMAIN text :
                            ~IsWs(text[i]) /\ IsContentWord(WordAround(text, i))})

\* Tokens with capitals and punctuation were kept, others discarded.
C5_Witness ==
  /\ AfterStopwords
  /\ text = IdentifierTestInput
  /\ IsSubstring(Word_process_env_API_KEY, compressed)
  /\ Len(compressed) < Len(text)

StrippedThenLowered(w) == toLowerCase(SelectSeq(w, LAMBDA c : c \in Lower))

(***************************************************************************)
(* C6 as stated: a token is discarded exactly when its cleaned form is      *)
(* empty or a stopword, the cleaned form being the token stripped of every  *)
(* character that is not a lowercase letter and then lower-cased.           *)
(***************************************************************************)
C6_StripThenLower ==
  AfterStopwords =>
    compressed =
      join(SelectSeq(TokensOf(text),
                     LAMBDA w : ~(\/ StrippedThenLowered(w) = <<>>
                                  \/ StrippedThenLowered(w) \in commonStopwords)))

(***************************************************************************)
(* C6 amended: a token is discarded exactly when its cleaned form is empty  *)
(* or a stopword, the cleaned form being the token lower-cased and then     *)
(* stripped of every character that is not a letter a-z; every other token  *)
(* is kept.                                                                *)
(***************************************************************************)
C6_LowerThenStrip ==
  AfterStopwords =>
    compressed =
      join(SelectSeq(TokensOf(text),
                     LAMBDA w : ~(LettersOf(w) = <<>> \/ LettersOf(w) \in commonStopwords)))

\* The capitalised stopword This was discarded.
C6_Witness ==
  /\ AfterStopwords
  /\ text = StopwordTestInput
  /\ compressed = Word_test \o Word_compression \o <<"s", "y", "s", "t", "e", "m">>

HasAsciiLetter(w) == \E i \in DOMAIN w : w[i] \in Lower \cup Upper

(***************************************************************************)
(* C7 as stated: stopword removal discards every token that contains no     *)
(* ASCII letter: leaving those tokens out of the kept ones changes nothing. *)
(***************************************************************************)
C7_NoAsciiLetterDiscarded ==
  AfterStopwords =>
    compressed = join(SelectSeq(TokensOf(text), LAMBDA w : HasAsciiLetter(w) /\ keepsWord(w)))

HasLetterLowered(w) == \E i \in DOMAIN w : LowerOf(w[i]) \in Lower

(***************************************************************************)
(* C7 amended: stopword removal discards every token none of whose          *)
(* characters lower-cases to a letter a-z (a token made only of             *)
(* punctuation, of digits, or of other such characters never appears in the *)
(* output); a token without an ASCII letter is kept when one of its         *)
(* characters lower-cases to one, as the Kelvin sign does.                  *)
(***************************************************************************)
C7_LetterlessDiscarded ==
  AfterStopwords =>
    compressed = join(SelectSeq(TokensOf(text), LAMBDA w : HasLetterLowered(w) /\ keepsWord(w)))

\* The tokens = and 42 were discarded.
C7_Witness ==
  /\ AfterStopwords
  /\ text = AssignText
  /\ compressed = <<"x">>

DefaultCall ==
  /\ pc = "done"
  /\ StageFlags = <<TRUE, FALSE, TRUE, TRUE>>
  /\ stemmerType = "porter"

IsUpperIdentifier(w) ==
  /\ \A i \in DOMAIN w : w[i] \in Upper \cup {"_"}
  /\ \E i \in DOMAIN w : w[i] \in Upper
  /\ ~SpellsStopword(w)

IsDottedIdentifierPath(w) ==
  /\ \E i \in DOMAIN w : w[i] = "."
  /\ \E a, b \in DOMAIN w :
       /\ a <= b
       /\ a = 1 \/ w[a - 1] = "."
       /\ b = Len(w) \/ w[b + 1] = "."
       /\ IsUpperIdentifier(SubSeq(w, a, b))

(***************************************************************************)
(* C8: with default options every input token that is an identifier of      *)
(* uppercase letters and underscores (and not a stopword), or a dotted path *)
(* with such an identifier as a component, is a substring of the output;    *)
(* the output for const API_KEY = process.env.API_KEY contains API_KEY and  *)
(* process.env.API_KEY.                                                    *)
(***************************************************************************)
C8_IdentifiersPreserved ==
  DefaultCall =>
    /\ \A k \in DOMAIN TokensOf(text) :
         IsUpperIdentifier(TokensOf(text)[k]) \/ IsDottedIdentifierPath(TokensOf(text)[k])
           => IsSubstring(TokensOf(text)[k], compressed)
    /\ text = IdentifierTestInput =>
         /\ IsSubstring(Word_API_KEY, compressed)
         /\ IsSubstring(Word_process_env_API_KEY, compressed)

\* The stemming stage was given `text` itself and has run.
StemmedText ==
  pc = "spaces" /\ useStemming /\ ~doRemoveStopwords /\ ~doRemovePunctuation

IsOneToken(s) == s # <<>> /\ \A i \in DOMAIN s : ~IsWs(s[i])

MatchesUpperSnake(w) == w # <<>> /\ Range(w) \subseteq Upper \cup {"_"}

\* Letters only, a lowercase letter among them, and a capital after the first
\* character.
IsCamelCase(w) ==
  /\ Range(w) \subseteq Lower \cup Upper
  /\ \E i \in DOMAIN w : w[i] \in Lower
  /\ \E i \in DOMAIN w : i > 1 /\ w[i] \in Upper

MatchesInnerCapitals(w) ==
  \E i \in DOMAIN w : \E n \in 1..Len(w) :
    /\ i + n + 1 <= Len(w)
    /\ w[i] \in Upper
    /\ \A k \in 1..n : w[i + k] \in Lower
    /\ w[i + n + 1] \in Upper

IsIdentifierToken(w) == MatchesUpperSnake(w) \/ MatchesInnerCapitals(w)

C10_StemsConverge ==
  /\ pc = "done"
  /\ text = StemmingTestInput
  /\ options = [useStemming |-> TRUE, stemmerType |-> "porter"]
  => SelectSeq(compressed, LAMBDA c : ~IsWs(c)) = Word_test \o Word_test \o Word_test

\* The letters of a-z and A-Z of a token, and its other characters, in order
AsciiLettersOf(w) == SelectSeq(w, LAMBDA c : c \in Lower \cup Upper)

NonLettersOf(w) == SelectSeq(w, LAMBDA c : c \notin Lower \cup Upper)

\* What the selected stemmer makes of a run of letters
SelectedStem(letters, type) ==
  IF type = "lancaster"
  THEN SubSeq(porterStemmer(letters), 1, Len(porterStemmer(letters)) - 1)
  ELSE porterStemmer(letters)

(***************************************************************************)
(* C11: a token of the stemming stage that is not an identifier and has a   *)
(* letter keeps its non-alphabetic characters, and its alphabetic           *)
(* characters become the selected stemmer's result for them (tests, becomes *)
(* test,), also when non-letters separate the letters (re-tested, don't).   *)
(***************************************************************************)
C11_LettersStemmedInPlace ==
  StemmedText /\ IsOneToken(text) /\ ~IsIdentifierToken(text) /\ HasAsciiLetter(text)
    => /\ NonLettersOf(compressed) = NonLettersOf(text)
       /\ AsciiLettersOf(compressed) = SelectedStem(AsciiLettersOf(text), stemmerType)
       /\ text = TestsCommaText /\ stemmerType = "porter"
            => compressed = <<"t", "e", "s", "t", ",">>

\* The word ends in the characters of suffix
HasSuffix(w, suffix) ==
  /\ Len(w) >= Len(suffix)
  /\ \A k \in 1..Len(suffix) : w[Len(w) - Len(suffix) + k] = suffix[k]

DropLast(w, n) == [k \in 1..(Len(w) - n) |-> w[k]]

\* The rules of the stemmer as the claim lists them, for a lower-cased word
RuleStem(w) ==
  IF HasSuffix(w, <<"s", "s", "e", "s">>) THEN DropLast(w, 2)
  ELSE IF HasSuffix(w, <<"i", "e", "s">>) THEN DropLast(w, 2)
  ELSE IF HasSuffix(w, <<"s", "s">>) THEN w
  ELSE IF HasSuffix(w, <<"s">>) THEN DropLast(w, 1)
  ELSE IF HasSuffix(w, <<"e", "e", "d">>) THEN (IF Len(w) > 4 THEN DropLast(w, 1) ELSE w)
  ELSE IF HasSuffix(w, <<"e", "d">>) THEN (IF Len(w) > 4 THEN DropLast(w, 2) ELSE w)
  ELSE IF HasSuffix(w, <<"i", "n", "g">>) THEN (IF Len(w) > 4 THEN DropLast(w, 3) ELSE w)
  ELSE w

\* The stemming stage was given one word of letters that is no identifier, so
\* its result is porterStemmer's result for the word.
PorterStemmedWord ==
  /\ StemmedText
  /\ stemmerType = "porter"
  /\ IsOneToken(text)
  /\ Range(text) \subseteq Lower \cup Upper
  /\ ~IsIdentifierToken(text)

(***************************************************************************)
(* C12: porterStemmer lower-cases the word and applies only the first       *)
(* matching suffix of sses, ies, ss, s, eed, ed, ing: sses and ies drop 2   *)
(* characters, ss changes nothing, s drops 1, eed drops 1 when the word is  *)
(* longer than 4, ed and ing drop the suffix when the word is longer than   *)
(* 4; otherwise the lower-cased word is returned, and no later rule is      *)
(* tried after the first match.                                            *)
(***************************************************************************)
C12_FirstMatchingSuffix ==
  PorterStemmedWord =>
    /\ compressed = RuleStem([k \in DOMAIN text |-> LowerOf(text[k])])
    /\ text = Word_Caresses => compressed = Word_Caress
    /\ text = Word_Ponies => compressed = <<"p", "o", "n", "i">>
    /\ text = Word_Caress => compressed = Word_Caress
    /\ text = Word_Cats => compressed = <<"c", "a", "t">>
    /\ text = Word_Agreed => compressed = <<"a", "g", "r", "e", "e">>
    /\ text = Word_Feed => compressed = Word_Feed
    /\ text = Word_Tested => compressed = Word_test
    /\ text = Word_Used => compressed = Word_Used
    /\ text = Word_Running => compressed = <<"r", "u", "n", "n">>
    /\ text = Word_Sing => compressed = Word_Sing
    /\ text = Word_Hello => compressed = Word_Hello

\* caress ends in ss and in s: the rule of ss matched first and left it whole.
C12_Witness ==
  /\ PorterStemmedWord
  /\ text = Word_Caress
  /\ compressed = Word_Caress

\* The letters of the token are next to each other
HasOneLetterRun(w) ==
  \A i, j, k \in DOMAIN w :
    i < j /\ j < k /\ w[i] \in Lower \cup Upper /\ w[k] \in Lower \cup Upper
      => w[j] \in Lower \cup Upper

\* A token whose letters the stemming stage replaces by their stem
IsStemmedWord(w) == ~IsIdentifierToken(w) /\ HasAsciiLetter(w) /\ HasOneLetterRun(w)

\* The token without its last letter, if it has a letter
WithoutFinalLetter(w) ==
  IF HasAsciiLetter(w)
  THEN CharactersAt(w, {i \in DOMAIN w :
                          \/ w[i] \notin Lower \cup Upper
                          \/ \E k \in DOMAIN w : k > i /\ w[k] \in Lower \cup Upper})
  ELSE w

(***************************************************************************)
(* C13: for every text the stemming stage gives with snowball exactly what  *)
(* it gives with porter, and with lancaster every stemmed word is what      *)
(* porter makes of it with the final character of the stem dropped, an      *)
(* empty stem staying empty.                                               *)
(***************************************************************************)
C13_StemmerVariants ==
  StemmedText =>
    /\ stemmerType = "snowball" => compressed = applyStemming(text, "porter")
    /\ stemmerType = "lancaster" =>
         compressed =
           join([k \in DOMAIN TokensOf(text) |->
                   IF IsStemmedWord(TokensOf(text)[k])
                   THEN WithoutFinalLetter(stemWord(TokensOf(text)[k], "porter"))
                   ELSE TokensOf(text)[k]])
    /\ text = Word_Tested =>
         compressed = IF stemmerType = "lancaster" THEN <<"t", "e", "s">> ELSE Word_test
    /\ text = <<"s">> => compressed = <<>>

\* snowball made test, of tests, as porter does.
C13_Witness ==
  /\ StemmedText
  /\ stemmerType = "snowball"
  /\ text = TestsCommaText
  /\ compressed = <<"t", "e", "s", "t", ",">>

\* lancaster made tes of tested, one character less than porter's test.
C13_WitnessLancaster ==
  /\ StemmedText
  /\ stemmerType = "lancaster"
  /\ text = Word_Tested
  /\ compressed = <<"t", "e", "s">>

\* The spaces stage was given `text` itself and has run.
CollapsedText == pc = "done" /\ StageFlags = <<FALSE, FALSE, FALSE, TRUE>>

\* Without spaces and tabs
WithoutBlanks(t) == SelectSeq(t, LAMBDA c : c \notin {" ", "\t"})

\* One newline for each run of newlines
WithSingleNewlines(t) ==
  CharactersAt(t, {i \in DOMAIN t : t[i] # "\n" \/ i = 1 \/ t[i - 1] # "\n"})

\* Without the whitespace before the first and after the last other character
WithoutOuterWhitespace(t) ==
  CharactersAt(t, {i \in DOMAIN t :
                     /\ \E a \in 1..i : ~IsWs(t[a])
                     /\ \E b \in i..Len(t) : ~IsWs(t[b])})

(***************************************************************************)
(* C14: the whitespace-collapse stage removes every space and tab,          *)
(* collapses each run of newlines to one newline that stays in the output,  *)
(* and trims leading and trailing whitespace; a text with newlines between  *)
(* non-empty lines keeps exactly one newline between them.                  *)
(***************************************************************************)
C14_NewlinesKept ==
  CollapsedText =>
    /\ compressed = WithoutOuterWhitespace(WithSingleNewlines(WithoutBlanks(text)))
    /\ text = TwoLinesText => compressed = <<"a", "b", "\n", "c", "d">>

(***************************************************************************)
(* C15: compressText("too    many     spaces   here", {removeSpaces: true}) *)
(* returns "too many spaces here".                                         *)
(***************************************************************************)
C15_SpacesTest ==
  /\ pc = "done"
  /\ text = SpacesTestInput
  /\ options = [removeSpaces |-> TRUE]
  => compressed =
       <<"t", "o", "o", " ", "m", "a", "n", "y", " ", "s", "p", "a", "c", "e", "s", " ",
          "h", "e", "r", "e">>

\* A stage that removes whitespace is enabled and the call has returned.
WhitespaceStageRan == pc = "done" /\ (doRemoveStopwords \/ useStemming \/ doRemoveSpaces)

PunctuationRemoved == pc = "stemming" /\ doRemovePunctuation /\ ~doRemoveStopwords

(***************************************************************************)
(* C17: removePunctuation deletes exactly the seven characters , ; : ' "    *)
(* ! ? and nothing else: its output is its input with those characters      *)
(* removed, the other characters unchanged and in their order.              *)
(***************************************************************************)
C17_SevenMarksRemoved ==
  PunctuationRemoved =>
    compressed =
      CharactersAt(text, {i \in DOMAIN text :
                            text[i] \notin {",", ";", ":", "'", "\"", "!", "?"}})

\* The seven marks went, the full stop, the parentheses, _ and - stayed.
C17_Witness ==
  /\ PunctuationRemoved
  /\ text = PunctuatedText
  /\ compressed = <<"a", "b", "c", "d", "e", "f", "g", "h", ".", "(", "_", ")", "-">>

(***************************************************************************)
(* C18: removePunctuation is idempotent: applied to its own output it       *)
(* returns that output unchanged.                                          *)
(***************************************************************************)
C18_PunctuationIdempotent ==
  PunctuationRemoved => removePunctuation(compressed) = compressed

\* Two commas were removed; a second application has nothing to remove.
C18_Witness ==
  /\ PunctuationRemoved
  /\ text = <<",", "s", ",">>
  /\ compressed = <<"s">>
  /\ removePunctuation(compressed) = <<"s">>

(***************************************************************************)
(* Helpers of the properties of the metrics                                *)
(***************************************************************************)
\* k tenths is a nearest number of tenths to 100 * num / den.
IsNearestTenth(k, num, den) ==
  LET distance == k * den - 1000 * num
  IN  2 * (IF distance < 0 THEN -distance ELSE distance) <= den

\* The least number of tokens of four characters that hold n characters
TokensFor(n) == CHOOSE q \in 0..n : 4 * q >= n /\ (q = 0 \/ 4 * (q - 1) < n)

RatioReturned == ratio # NotCalled

ReductionReturned == reduction # NotCalled

(***************************************************************************)
(* C19: calculateCompressionRatio returns 0 when the original is empty,     *)
(* otherwise (len(original) - len(compressed)) / len(original) * 100        *)
(* rounded to one decimal place; the result never exceeds 100; for an       *)
(* original of 40 and a compressed string of 20 characters it lies strictly *)
(* between 40 and 60.                                                      *)
(***************************************************************************)
C19_CompressionRatio ==
  RatioReturned =>
    /\ ratio.kind = "number"
    /\ Len(original) = 0 => ratio.tenths = 0
    /\ Len(original) > 0 =>
         IsNearestTenth(ratio.tenths, Len(original) - Len(compressedArg), Len(original))
    /\ ratio.tenths <= 1000
    /\ Len(original) = 40 /\ Len(compressedArg) = 20 =>
         ratio.tenths > 400 /\ ratio.tenths < 600

\* The call of the test returned 50.
C19_Witness ==
  /\ original = RatioTestOriginal
  /\ compressedArg = RatioTestCompressed
  /\ ratio = Number(500)

(***************************************************************************)
(* C20: for a non-empty original estimateTokenReduction returns             *)
(* (ceil(len(original) / 4) - ceil(len(compressed) / 4)) /                  *)
(* ceil(len(original) / 4) * 100 rounded to one decimal place; the result   *)
(* lies between 0 and 100 when the compressed string is no longer than the  *)
(* original; for an original of 63 and a compressed string of 33            *)
(* characters it lies strictly between 30 and 60.                           *)
(***************************************************************************)
C20_TokenReduction ==
  ReductionReturned /\ Len(original) > 0 =>
    /\ reduction.kind = "number"
    /\ IsNearestTenth(reduction.tenths,
                      TokensFor(Len(original)) - TokensFor(Len(compressedArg)),
                      TokensFor(Len(original)))
    /\ Len(compressedArg) <= Len(original) =>
         reduction.tenths >= 0 /\ reduction.tenths <= 1000
    /\ Len(original) = 63 /\ Len(compressedArg) = 33 =>
         reduction.tenths > 300 /\ reduction.tenths < 600

\* The call of the test returned 43.8: 16 tokens became 9.
C20_Witness ==
  /\ original = TokenTestOriginal
  /\ compressedArg = TokenTestCompressed
  /\ reduction = Number(438)

(***************************************************************************)
(* C21: estimateTokenReduction("", compressed), like                        *)
(* calculateCompressionRatio, returns 0 for every compressed string, never  *)
(* NaN, an infinity or an exception.                                       *)
(***************************************************************************)
C21_EmptyOriginalGuard ==
  /\ RatioReturned /\ original = <<>> => ratio = Number(0)
  /\ ReductionReturned /\ original = <<>> => reduction = Number(0)

\* The defaults the interface states for the fields of CompressionOptions
StatedDefaults ==
  [ removeStopwords |-> TRUE, removePunctuation |-> FALSE, removeSpaces |-> TRUE,
    useStemming |-> TRUE, stemmerType |-> "porter" ]

\* The options with every absent field passed as its stated default
WithDefaultsPassed(o) ==
  [field \in DOMAIN StatedDefaults |->
     IF field \in DOMAIN o THEN o[field] ELSE StatedDefaults[field]]

\* What compressText returns for a text and fully given options
ResultFor(t, full) ==
  LET s1 == IF full.removeStopwords THEN removeStopwords(t) ELSE t
      s2 == IF full.removePunctuation THEN removePunctuation(s1) ELSE s1
      s3 == IF full.useStemming THEN applyStemming(s2, full.stemmerType) ELSE s2
  IN  IF full.removeSpaces THEN removeExtraSpaces(s3) ELSE s3

(***************************************************************************)
(* C22: every option field is optional with its stated default:             *)
(* compressText(text), compressText(text, {}) and compressText(text,        *)
(* {removeStopwords: true, removePunctuation: false, removeSpaces: true,    *)
(* useStemming: true, stemmerType: "porter"}) return the same string, and   *)
(* leaving out any field is the same as passing its default with the other  *)
(* fields as given.                                                        *)
(***************************************************************************)
C22_OptionDefaults ==
  pc = "done" =>
    /\ compressed = ResultFor(text, WithDefaultsPassed(options))
    /\ options = NoOptions => compressed = ResultFor(text, StatedDefaults)

\* removePunctuation was left out and the other fields given: the marks stayed.
C22_Witness ==
  /\ pc = "done"
  /\ options = [ removeStopwords |-> TRUE, removeSpaces |-> TRUE, useStemming |-> TRUE,
                 stemmerType |-> "lancaster" ]
  /\ text = PunctuatedText
  /\ compressed = PunctuatedText

(***************************************************************************)
(* C23: no call of compressText, calculateCompressionRatio or               *)
(* estimateTokenReduction modifies the shared stopword set or other shared  *)
(* state: under any interleaving each call returns what it returns when run *)
(* alone, and two calls with the same text and options return equal         *)
(* strings.                                                                *)
(***************************************************************************)
C23_Stateless ==
  /\ stopwordSet = commonStopwords
  /\ \A c \in DOMAIN calls :
       calls[c].pc = "done" =>
         calls[c].compressed = ResultFor(calls[c].text, WithDefaultsPassed(calls[c].options))
  /\ \A c, d \in DOMAIN calls :
       /\ calls[c].pc = "done" /\ calls[d].pc = "done"
       /\ calls[c].text = calls[d].text /\ calls[c].options = calls[d].options
       => calls[c].compressed = calls[d].compressed
  /\ RatioReturned /\ original = RatioTestOriginal /\ compressedArg = RatioTestCompressed
       => ratio = Number(500)
  /\ ReductionReturned /\ original = RatioTestOriginal /\ compressedArg = RatioTestCompressed
       => reduction = Number(500)

\* Two calls with the same arguments ran interleaved with the metrics and both
\* returned cat.
C23_Witness ==
  /\ DOMAIN calls = CallIds
  /\ \A c \in CallIds :
       /\ calls[c].text = TheCatsText
       /\ calls[c].options = NoOptions
       /\ calls[c].pc = "done"
       /\ calls[c].compressed = <<"c", "a", "t">>
  /\ RatioReturned
  /\ ReductionReturned

(***************************************************************************)
(* Helpers of the properties of autoCorrectSelections                      *)
(***************************************************************************)
\* The last call selected a backend language and did or did not return.
BackendLanguageSelected ==
  lastCall # NoCall /\ lastCall.newCategory = "language"
    /\ lastCall.newValue \in {"python", "php", "java", "go", "rust"}

(***************************************************************************)
(* C24: starting from a consistent selection, after any sequence of         *)
(* autoCorrectSelections calls, each applied to the previous result, the    *)
(* selection never combines a backend language (python, php, java, go,      *)
(* rust) with a frontend framework other than none or with a JavaScript     *)
(* meta-framework (nextjs, nuxtjs, sveltekit).                              *)
(***************************************************************************)
C24_LanguageSeparation ==
  selection.language \in {Str("python"), Str("php"), Str("java"), Str("go"), Str("rust")}
    => /\ selection.frontend = Str("none")
       /\ selection.metaFramework \notin {Str("nextjs"), Str("nuxtjs"), Str("sveltekit")}

\* The entries css and tailwind of an array, in their order
UniversalEntries(styling) ==
  IF styling.type = "array"
  THEN Arr(CharactersAt(styling.items,
                        {i \in DOMAIN styling.items : styling.items[i] \in {"css", "tailwind"}}))
  ELSE Arr(<<>>)

(***************************************************************************)
(* C25: for every current selection, including one produced by earlier      *)
(* autoCorrectSelections calls, autoCorrectSelections('language', L,        *)
(* current) with L a backend language completes without error and returns  *)
(* a selection with language L, frontend none, metaFramework none, styling  *)
(* holding only the css and tailwind entries of the previous styling, and   *)
(* stateManagement cleared to none; all other categories are unchanged.     *)
(***************************************************************************)
C25_BackendLanguageSelected ==
  BackendLanguageSelected =>
    /\ ~lastCall.outcome.threw
    /\ lastCall.outcome.corrected =
         [lastCall.passed EXCEPT
            !.language = Str(lastCall.newValue),
            !.frontend = Str("none"),
            !.metaFramework = Str("none"),
            !.styling = UniversalEntries(lastCall.passed.styling),
            !.stateManagement = Arr(<<"none">>)]

\* The last call selected a meta-framework.
MetaFrameworkSelected == lastCall # NoCall /\ lastCall.newCategory = "metaFramework"

(***************************************************************************)
(* C26: autoCorrectSelections('metaFramework', m, current) returns a        *)
(* selection with metaFramework m and frontend react for nextjs, vue for    *)
(* nuxtjs, svelte for sveltekit, and for any other m (vite, none) leaves    *)
(* frontend as it was; the input selection object is not mutated.           *)
(***************************************************************************)
C26_MetaFrameworkSelected ==
  MetaFrameworkSelected =>
    /\ ~lastCall.outcome.threw
    /\ lastCall.outcome.corrected.metaFramework = Str(lastCall.newValue)
    /\ lastCall.outcome.corrected.frontend =
         CASE lastCall.newValue = "nextjs" -> Str("react")
           [] lastCall.newValue = "nuxtjs" -> Str("vue")
           [] lastCall.newValue = "sveltekit" -> Str("svelte")
           [] OTHER -> lastCall.passed.frontend
    /\ \A category \in DOMAIN lastCall.passed \ {"metaFramework", "frontend"} :
         lastCall.outcome.corrected[category] = lastCall.passed[category]
    /\ lastCall.outcome.argument = lastCall.passed

\* nuxtjs was selected while the frontend was react: vue came back, and the
\* selection passed in still says react.
C26_Witness ==
  /\ MetaFrameworkSelected
  /\ lastCall.newValue = "nuxtjs"
  /\ lastCall.passed.frontend = Str("react")
  /\ lastCall.outcome.corrected.frontend = Str("vue")
  /\ lastCall.outcome.argument.frontend = Str("react")
  /\ selection.metaFramework = Str("nuxtjs")

\* The stem the claim's rules give for a run of letters under a stemmer type
StemOfRun(letters, type) ==
  LET stem == RuleStem([k \in DOMAIN letters |-> LowerOf(letters[k])])
  IN  IF type = "lancaster" THEN DropLast(stem, IF stem = <<>> THEN 0 ELSE 1) ELSE stem

\* A token with one run of letters, the run replaced by its stem
WithRunStemmed(w, type) ==
  LET first == CHOOSE i \in DOMAIN w : w[i] \in Lower \cup Upper
                 /\ \A k \in 1..(i - 1) : w[k] \notin Lower \cup Upper
      last == CHOOSE i \in DOMAIN w : w[i] \in Lower \cup Upper
                /\ \A k \in (i + 1)..Len(w) : w[k] \notin Lower \cup Upper
  IN  SubSeq(w, 1, first - 1) \o StemOfRun(SubSeq(w, first, last), type)
        \o SubSeq(w, last + 1, Len(w))

\* What the claim says the stemming stage makes of a whitespace-free text
StemmedAsOneToken(w, type) ==
  IF ~IsIdentifierToken(w) /\ HasAsciiLetter(w) /\ HasOneLetterRun(w)
  THEN WithRunStemmed(w, type)
  ELSE w

\* The stemming stage is about to run after the stopword stage has run.
StemmingAfterStopwords == pc = "stemming" /\ doRemoveStopwords /\ useStemming

C27_WitnessTwoRuns ==
  /\ pc = "spaces"
  /\ options = NoOptions
  /\ text = ReTestedText
  /\ compressed = ReTestedText

(***************************************************************************)
(* Helpers of the properties of GET /api/rules                             *)
(***************************************************************************)
\* A name without directory components that ends in .md
IsMdBaseName(name) ==
  /\ \A i \in DOMAIN name : name[i] # "/"
  /\ Len(name) >= 3
  /\ SubSeq(name, Len(name) - 2, Len(name)) = <<".", "m", "d">>

\* The path of a direct child of the templates directory with such a name
IsTemplateFile(path) ==
  /\ Len(path) = 3
  /\ path[1] = <<"c", "w", "d">>
  /\ path[2] = <<"t", "e", "m", "p", "l", "a", "t", "e", "s">>
  /\ IsMdBaseName(path[3])

(***************************************************************************)
(* C28: for every value of the files parameter of GET /api/rules, every     *)
(* file the handler reads is a direct child of the templates directory      *)
(* whose name ends in .md, and every key of the returned contents map is    *)
(* such a base name; a name with directory components or without .md never  *)
(* causes a read outside that directory, and a file that cannot be read is  *)
(* omitted while the others are still returned with a success response.     *)
(***************************************************************************)
C28_ReadsStayInTemplates ==
  /\ \A i \in DOMAIN reads :
       IsTemplateFile(reads[i].path) /\ reads[i].path[3] = reads[i].key
  /\ \A key \in DOMAIN contents : IsMdBaseName(key)
  /\ routePc = "done" /\ filesParam.present =>
       /\ response.status = 200
       /\ DOMAIN response.contents = {reads[i].key : i \in {k \in DOMAIN reads : reads[k].ok}}
       /\ \A key \in DOMAIN response.contents : IsMdBaseName(key)

\* ../../etc/passwd.md,react.md: passwd.md was looked for in templates and could
\* not be read, react.md was read and returned with status 200.
C28_Witness ==
  /\ routePc = "done"
  /\ filesParam = [present |-> TRUE, value |-> TraversalParam]
  /\ Len(reads) = 2
  /\ reads[1].path = Append(templatesDir, <<"p", "a", "s", "s", "w", "d", ".", "m", "d">>)
  /\ ~reads[1].ok
  /\ reads[2].ok
  /\ response.status = 200
  /\ DOMAIN response.contents = {<<"r", "e", "a", "c", "t", ".", "m", "d">>}

(***************************************************************************)
(* Helpers of the properties of useRulesGenerator                          *)
(***************************************************************************)
\* Call c of generateRules waits for a promise
Awaiting(c) == generateCalls[c].pc \in {"generateRulesContent", "downloadZip"}

\* What the hook returns and what it has downloaded
hookState == <<selectedTool, techStack, bestPractices, isGenerating, downloads>>

(***************************************************************************)
(* C29: every generateRules call that starts with canGenerate true sets    *)
(* isGenerating to true and eventually sets it back to false, whether      *)
(* generation and download succeed or throw; a call made while canGenerate *)
(* is false changes no state and triggers no download; isGenerating never  *)
(* stays true for ever.                                                    *)
(***************************************************************************)
C29_IsGeneratingReset ==
  /\ [][\A c \in GenerateCallIds :
          generateCalls[c].pc = "idle" /\ generateCalls'[c].pc # "idle" =>
            IF canGenerate
            THEN isGenerating' /\ Awaiting(c)'
            ELSE generateCalls'[c].pc = "returned" /\ hookState' = hookState]_vars
  /\ [][\A c \in GenerateCallIds :
          Awaiting(c) /\ generateCalls'[c].pc = "returned" => ~isGenerating']_vars
  /\ \A c \in GenerateCallIds : Awaiting(c) ~> generateCalls[c].pc = "returned"
  /\ isGenerating ~> ~isGenerating
  /\ []((\A c \in GenerateCallIds : ~Awaiting(c)) => ~isGenerating)

\* One call was made with nothing selected and did nothing; the other was made
\* with a selection, its zip was offered, and isGenerating is false again.
C29_Witness ==
  /\ \A c \in GenerateCallIds : generateCalls[c].pc = "returned"
  /\ Cardinality(downloads) = 1
  /\ \A download \in downloads : download.kind = "zip"
  /\ ~isGenerating

(***************************************************************************)
(* Helpers of the properties of the cursor package                         *)
(***************************************************************************)
\* The names of the .mdc files of the package
GeneratedMdcFiles == {files[i].filename : i \in {k \in DOMAIN files : "path" \in DOMAIN files[k]}}

\* The file names under Included Rules of the README of the package
IncludedRules ==
  UNION {{files[i].includedRules[j].filename : j \in DOMAIN files[i].includedRules} :
           i \in {k \in DOMAIN files : files[k].filename = "README.md"}}

(***************************************************************************)
(* C30: for the cursor tool, the rule files listed under Included Rules in *)
(* the generated README.md are exactly the .mdc files of the generated     *)
(* package, for every tech stack, best-practice list and custom rules.     *)
(***************************************************************************)
C30_ReadmeListsGeneratedFiles ==
  generatorPc = "done" /\ config # <<>> => IncludedRules = GeneratedMdcFiles

====
